---- MODULE Spec2Model ----
(***************************************************************************)
(* A model of GottenGeography: the photo/track correlation engine of       *)
(* gottengeography.py (class GottenGeography) and the streaming track-file *)
(* parser of gg/xmlfiles.py.                                               *)
(*                                                                         *)
(* Conventions.                                                            *)
(*   - Python's None is the empty tuple <<>>; an optional integer t is     *)
(*     <<t>>; a float is an exact rational <<n, d>> in lowest terms with   *)
(*     d > 0 (rounding of IEEE doubles is not modelled).                   *)
(*   - Every signal handler is one action; the methods it calls are        *)
(*     operators from a program state (a record of the object's fields)    *)
(*     to the next program state.                                          *)
(***************************************************************************)
EXTENDS Integers, Sequences, FiniteSets, TLC

VARIABLES
    tracks,         \* self.tracks: epoch second -> [lat, lon, ele]
    HIGHEST,        \* self.HIGHEST: None or <<t>>
    LOWEST,         \* self.LOWEST: None or <<t>>
    loaded_photos,  \* the GtkListStore: a sequence of rows
    modified,       \* self.modified: the set of its keys (file names)
    time_fudge,     \* the value of the time_fudge spin button
    disk,           \* EXIF record of every photo file on disk
    save_button,    \* sensitivity of the Save button
    gpx_sensitive,  \* sensitivity of the Clear button and of time_fudge
    op,             \* history: the last handler that ran
    expat,          \* the XML document, as far as expat has read it
    parser,         \* the fields of the XMLSimpleParser
    trackfile,      \* the fields of the GPXFile
    polygons,       \* the polygons on the map, each a sequence of points
    stamp,          \* a GPX time string and what it converts to
    args            \* the arguments of a method called on its own

appvars == <<tracks, HIGHEST, LOWEST, loaded_photos, modified, time_fudge,
             disk, save_button, gpx_sensitive, op>>

gpxvars == <<expat, parser, trackfile, polygons>>

purevars == <<stamp, args>>

vars == <<appvars, gpxvars, purevars>>

(***************************************************************************)
(* Bounds of the model.                                                    *)
(***************************************************************************)
MaxTime == 3
MaxPts == 1
MaxFudgeTicks == 1
MaxBatch == 1

(***************************************************************************)
(* Python values.                                                          *)
(***************************************************************************)
None == <<>>

Abs(x) == IF x < 0 THEN -x ELSE x

RECURSIVE GCD(_, _)
GCD(a, b) == IF b = 0 THEN a ELSE GCD(b, a % b)

\* The float n / d, d > 0.
Rat(n, d) == LET g == GCD(Abs(n), d) IN <<n \div g, d \div g>>

Float(n) == <<n, 1>>

\* Python truthiness of an optional float: None and 0.0 are false.
Truthy(x) == x # None /\ x[1] # 0

\* `a < b` and `a > b` of Python 2 on optional integers: None orders below
\* every number.
PyLess(a, b) == IF a = None THEN b # None ELSE IF b = None THEN FALSE ELSE a[1] < b[1]
PyGreater(a, b) == PyLess(b, a)

(***************************************************************************)
(* The files the user can choose.  A photo file holds an EXIF record; the  *)
(* track file is named *.gpx and holds a track of points, possibly ending  *)
(* in a trkpt without <time> or <ele>; "notes.txt" is no image and no XML; *)
(* "gone.jpg" cannot be read at all.                                       *)
(***************************************************************************)
Times == 0 .. MaxTime

TrackVals == {[lat |-> 10, lon |-> 20, ele |-> 5],
              [lat |-> 12, lon |-> 26, ele |-> 0]}

GpxPoints == [t : Times, v : TrackVals]

RECURSIVE SeqsUpTo(_, _)
SeqsUpTo(S, n) ==
    IF n = 0 THEN {<<>>}
    ELSE LET shorter == SeqsUpTo(S, n - 1)
         IN shorter \cup {Append(q, x) : q \in {r \in shorter : Len(r) = n - 1}, x \in S}

\* A parsed GPX document: the trkpt elements in document order; `crash` says
\* that a trkpt lacking <time> or <ele> follows them.
GpxDocs == [pts : SeqsUpTo(GpxPoints, MaxPts), crash : BOOLEAN]

NoDoc == [pts |-> <<>>, crash |-> FALSE]

\* The directory the file chooser shows: the photo files on disk, the track
\* file with any of the contents GpxDocs, and the two files that fail.
ChosenFiles ==
    [kind : {"photo"}, name : DOMAIN disk, doc : {NoDoc}]
    \cup [kind : {"gpx"}, name : {"t.gpx"}, doc : GpxDocs]
    \cup [kind : {"invalid"}, name : {"notes.txt"}, doc : {NoDoc}]
    \cup [kind : {"unreadable"}, name : {"gone.jpg"}, doc : {NoDoc}]

\* What the file chooser can return: up to MaxBatch different files.
Batches ==
    {b \in SeqsUpTo(ChosenFiles, MaxBatch) :
        b # <<>> /\ \A i, j \in 1 .. Len(b) : b[i].name = b[j].name => i = j}

\* The camera clock correction moves in steps of FudgeStep seconds.
FudgeStep == 5
FudgeVals == {FudgeStep * k : k \in -MaxFudgeTicks .. MaxFudgeTicks}

\* EXIF records on disk before the program writes any.
PhotoFiles == {"a.jpg", "b.jpg"}

DiskInit ==
    [f \in PhotoFiles |->
        IF f = "a.jpg"
        THEN [timestamp |-> 1, lat |-> None, lon |-> None, ele |-> None, datum |-> None]
        ELSE [timestamp |-> 7, lat |-> Float(50), lon |-> Float(60), ele |-> Float(30),
              datum |-> None]]

(***************************************************************************)
(* The EXIF conversions.  A float is the exact rational it stands for, so  *)
(* str(decimal) names that rational and Fraction(str(decimal)) is it.      *)
(***************************************************************************)
\* Sums, differences and multiples are taken over the least common
\* denominator, which keeps the integers small.
RatAdd(a, b) ==
    LET g == GCD(a[2], b[2])
    IN Rat(a[1] * (b[2] \div g) + b[1] * (a[2] \div g), (a[2] \div g) * b[2])

RatSub(a, b) == RatAdd(a, <<-b[1], b[2]>>)

RatOver(a, k) ==
    LET g == GCD(Abs(a[1]), k)
    IN <<a[1] \div g, a[2] * (k \div g)>>

RatTimes(a, k) ==
    LET g == GCD(k, a[2])
    IN Rat(a[1] * (k \div g), a[2] \div g)

RatAbs(a) == <<Abs(a[1]), a[2]>>

\* |a - b| <= |c - b|
Nearer(a, c, b) ==
    LET x == RatAbs(RatSub(a, b))
        y == RatAbs(RatSub(c, b))
    IN x[1] * y[2] <= y[1] * x[2]

\* The loop of Fraction.limit_denominator over the continued fraction of n/d.
RECURSIVE Convergents(_, _, _, _, _, _, _)
Convergents(p0, q0, p1, q1, n, d, max_denominator) ==
    LET a == n \div d
        q2 == q0 + a * q1
    IN IF q2 > max_denominator THEN [p0 |-> p0, q0 |-> q0, p1 |-> p1, q1 |-> q1]
       ELSE Convergents(p1, q1, p0 + a * p1, q2, d, n - a * d, max_denominator)

limit_denominator(r, max_denominator) ==
    IF r[2] <= max_denominator THEN r
    ELSE LET c == Convergents(0, 1, 1, 0, r[1], r[2], max_denominator)
             k == (max_denominator - c.q0) \div c.q1
             bound1 == Rat(c.p0 + k * c.p1, c.q0 + k * c.q1)
             bound2 == Rat(c.p1, c.q1)
         IN IF Nearer(bound2, bound1, r) THEN bound2 ELSE bound1

MaxDenominator == 10000

float_to_rational(decimal) == limit_denominator(decimal, MaxDenominator)

\* math.modf of a float that is not negative: (remainder, whole).
modf(x) == [whole |-> x[1] \div x[2], remainder |-> Rat(x[1] % x[2], x[2])]

decimal_to_dms(decimal) ==
    LET d == modf(RatAbs(decimal))
        m == modf(RatTimes(d.remainder, 60))
        seconds == RatTimes(m.remainder, 60)
    IN <<Float(d.whole), Float(m.whole), float_to_rational(seconds)>>

\* re.match("[SWsw]", sign) makes the result negative.
dms_to_decimal(dms, sign) ==
    LET sum == RatAdd(dms[1], RatAdd(RatOver(dms[2], 60), RatOver(dms[3], 3600)))
    IN IF sign \in {"S", "W", "s", "w"} THEN <<-sum[1], sum[2]>> ELSE sum

(***************************************************************************)
(* GottenGeography: the methods.  `s` is the record of the object's fields *)
(* plus `exc`, the exception on its way out ("" when there is none).       *)
(***************************************************************************)
RatGE(r, k) == r[1] >= k * r[2]
RatLE(r, k) == r[1] <= k * r[2]

\* In Python 2 `None >= -90` is false, so an absent coordinate is invalid.
valid_coords(lat, lon) ==
    /\ lat # None
    /\ lon # None
    /\ RatGE(lat, -90) /\ RatLE(lat, 90)
    /\ RatGE(lon, -180) /\ RatLE(lon, 180)

update_sensitivity(s) ==
    [s EXCEPT !.save_button = (s.modified # {}),
              !.gpx_sensitive = (DOMAIN s.tracks # {})]

_insert_coordinates(s, i, lat, lon, ele, mod) ==
    LET row == s.loaded_photos[i]
        m == IF mod THEN s.modified \cup {row.path} ELSE s.modified
        r1 == IF Truthy(ele) THEN [row EXCEPT !.ele = ele] ELSE row
        r2 == IF valid_coords(lat, lon) THEN [r1 EXCEPT !.lat = lat, !.lon = lon] ELSE r1
    IN [s EXCEPT !.modified = m, !.loaded_photos[i] = r2]

InsufficientData_one(t) == Cardinality(DOMAIN t) < 1

\* `if len(self.tracks) < 2: return`
InsufficientData(t) == Cardinality(DOMAIN t) < 2

Peg_low_only(photo, lower, higher) == IF photo < lower THEN lower ELSE photo

\* A variant that leaves the photo's time where it is.
Peg_none(photo, lower, higher) == photo

\* `if photo < lower: photo = lower` then `if photo > higher: photo = higher`
Peg(photo, lower, higher) ==
    LET p == IF photo < lower THEN lower ELSE photo
    IN IF p > higher THEN higher ELSE p

\* The loop over self.tracks that narrows (higher, lower) onto the photo.
RECURSIVE Nearest(_, _, _, _)
Nearest(keys, photo, higher, lower) ==
    IF keys = {} THEN [higher |-> higher, lower |-> lower]
    ELSE LET point == CHOOSE k \in keys : TRUE
             h == IF point > photo /\ point < higher THEN point ELSE higher
             l == IF point < photo /\ point > lower THEN point ELSE lower
         IN Nearest(keys \ {point}, photo, h, l)

\* low_perc and high_perc, as numerators over delta.
LowPerc(photo, lower, higher) == photo - lower
HighPerc(photo, lower, higher) == higher - photo

\* (a * low_perc) + (b * high_perc)
Blend(a, b, photo, lower, higher) ==
    Rat(a * LowPerc(photo, lower, higher) + b * HighPerc(photo, lower, higher),
        higher - lower)

\* What auto_timestamp_comparison computes for a photo taken at `ts`: the
\* branch it takes and the lat, lon, ele it hands to _insert_coordinates.
Comparison(t, highest, lowest, fudge, ts) ==
    LET target == ts + fudge
        base == [ts |-> ts, target |-> target, photo |-> None, branch |-> "insufficient",
                 lower |-> None, higher |-> None,
                 lat |-> None, lon |-> None, ele |-> None]
    IN IF InsufficientData(t) THEN base
       ELSE IF highest = None \/ lowest = None
       THEN [base EXCEPT !.branch = "TypeError"]
       ELSE LET photo == Peg(target, lowest[1], highest[1])
            IN IF photo \in DOMAIN t
               THEN [base EXCEPT !.photo = <<photo>>, !.branch = "exact",
                                 !.lat = Float(t[photo].lat),
                                 !.lon = Float(t[photo].lon),
                                 !.ele = Float(t[photo].ele)]
               ELSE LET n == Nearest(DOMAIN t, photo, highest[1], lowest[1])
                        lo == n.lower
                        hi == n.higher
                    IN IF hi - lo = 0
                       THEN [base EXCEPT !.photo = <<photo>>, !.lower = <<lo>>,
                                         !.higher = <<hi>>,
                                         !.branch = "ZeroDivisionError"]
                       ELSE [base EXCEPT
                                !.photo = <<photo>>, !.branch = "interpolated",
                                !.lower = <<lo>>, !.higher = <<hi>>,
                                !.lat = Blend(t[lo].lat, t[hi].lat, photo, lo, hi),
                                !.lon = Blend(t[lo].lon, t[hi].lon, photo, lo, hi),
                                !.ele = Blend(t[lo].ele, t[hi].ele, photo, lo, hi)]

\* Variants of auto_timestamp_comparison with a slip: one writes the narrowed
\* bounds back to the object, one writes the corrected time back to the row.
auto_timestamp_comparison_writes(s, i) ==
    LET c == Comparison(s.tracks, s.HIGHEST, s.LOWEST, s.time_fudge,
                        s.loaded_photos[i].timestamp)
    IN IF c.branch = "interpolated"
       THEN [_insert_coordinates(s, i, c.lat, c.lon, c.ele, TRUE)
                EXCEPT !.HIGHEST = c.higher, !.LOWEST = c.lower]
       ELSE IF c.branch = "exact"
       THEN _insert_coordinates(s, i, c.lat, c.lon, c.ele, TRUE)
       ELSE s

auto_timestamp_comparison_drift(s, i) ==
    LET c == Comparison(s.tracks, s.HIGHEST, s.LOWEST, s.time_fudge,
                        s.loaded_photos[i].timestamp)
    IN IF c.branch \in {"exact", "interpolated"}
       THEN [_insert_coordinates(s, i, c.lat, c.lon, c.ele, TRUE)
                EXCEPT !.loaded_photos[i].timestamp = c.target]
       ELSE s

auto_timestamp_comparison(s, i) ==
    LET c == Comparison(s.tracks, s.HIGHEST, s.LOWEST, s.time_fudge,
                        s.loaded_photos[i].timestamp)
    IN IF c.branch \in {"exact", "interpolated"}
       THEN _insert_coordinates(s, i, c.lat, c.lon, c.ele, TRUE)
       ELSE s

\* self.loaded_photos.foreach(self.auto_timestamp_comparison, None)
RECURSIVE ForeachComparison(_, _)
ForeachComparison(s, i) ==
    IF i > Len(s.loaded_photos) THEN s
    ELSE ForeachComparison(auto_timestamp_comparison(s, i), i + 1)

\* A variant that empties the track and leaves HIGHEST and LOWEST.
clear_all_gpx_keeps_bounds(s) ==
    update_sensitivity([s EXCEPT !.tracks = <<>>])

clear_all_gpx(s) ==
    update_sensitivity([s EXCEPT !.tracks = <<>>, !.HIGHEST = None, !.LOWEST = None])

InsertPoint_stale(s, p) ==
    [s EXCEPT !.tracks = [k \in DOMAIN s.tracks \cup {p.t} |->
                              IF k = p.t THEN p.v ELSE s.tracks[k]],
              !.HIGHEST = IF s.HIGHEST = None THEN <<p.t>> ELSE s.HIGHEST,
              !.LOWEST = IF PyLess(<<p.t>>, s.LOWEST) \/ s.LOWEST = None
                         THEN <<p.t>> ELSE s.LOWEST]

\* A variant that sets LOWEST once and never lowers it.
InsertPoint_lowest_once(s, p) ==
    [s EXCEPT !.tracks = [k \in DOMAIN s.tracks \cup {p.t} |->
                              IF k = p.t THEN p.v ELSE s.tracks[k]],
              !.HIGHEST = IF PyGreater(<<p.t>>, s.HIGHEST) THEN <<p.t>> ELSE s.HIGHEST,
              !.LOWEST = IF s.LOWEST = None THEN <<p.t>> ELSE s.LOWEST]

\* A variant in which a timestamp that is a key already keeps its point.
InsertPoint_keeps_first(s, p) ==
    [s EXCEPT !.tracks = [k \in DOMAIN s.tracks \cup {p.t} |->
                              IF k \in DOMAIN s.tracks THEN s.tracks[k] ELSE p.v],
              !.HIGHEST = IF PyGreater(<<p.t>>, s.HIGHEST) THEN <<p.t>> ELSE s.HIGHEST,
              !.LOWEST = IF PyLess(<<p.t>>, s.LOWEST) \/ s.LOWEST = None
                         THEN <<p.t>> ELSE s.LOWEST]

\* `area` grown to hold the point: [min lat, min lon, max lat, max lon].
Stretch(area, lat, lon) ==
    IF area = None THEN <<lat, lon, lat, lon>>
    ELSE <<IF lat < area[1] THEN lat ELSE area[1],
           IF lon < area[2] THEN lon ELSE area[2],
           IF lat > area[3] THEN lat ELSE area[3],
           IF lon > area[4] THEN lon ELSE area[4]>>

\* One pass of the innermost loop of load_gpx_from_file.
InsertPoint(s, p) ==
    [s EXCEPT !.tracks = [k \in DOMAIN s.tracks \cup {p.t} |->
                              IF k = p.t THEN p.v ELSE s.tracks[k]],
              !.HIGHEST = IF PyGreater(<<p.t>>, s.HIGHEST) THEN <<p.t>> ELSE s.HIGHEST,
              !.LOWEST = IF PyLess(<<p.t>>, s.LOWEST) \/ s.LOWEST = None
                         THEN <<p.t>> ELSE s.LOWEST,
              !.area = Stretch(s.area, p.v.lat, p.v.lon)]

RECURSIVE InsertPoints(_, _)
InsertPoints(s, pts) ==
    IF pts = <<>> THEN s ELSE InsertPoints(InsertPoint(s, Head(pts)), Tail(pts))

\* `area = None` before the loops; the area goes to ensure_visible at the end.
load_gpx_from_file(s, doc) ==
    LET parsed == InsertPoints([s EXCEPT !.area = None], doc.pts)
    IN IF doc.crash THEN [parsed EXCEPT !.exc = "IndexError"]
       ELSE LET compared == ForeachComparison(parsed, 1)
            IN IF doc.pts = <<>>
               THEN [compared EXCEPT !.exc = "TypeError"]  \* ensure_visible(*None)
               ELSE update_sensitivity(compared)

\* A variant that never finds the file among the rows.
_find_existing_photo_never(photos, filename) == 0

\* photos.foreach(self._find_existing_photo, [files, filename]): the first
\* row holding the file, 0 when there is none.
_find_existing_photo(photos, filename) ==
    LET hits == {i \in 1 .. Len(photos) : photos[i].path = filename}
    IN IF hits = {} THEN 0 ELSE CHOOSE i \in hits : \A j \in hits : i <= j

\* add_or_reload_photo of a readable photo file; iter = 0 stands for
\* iter=None, the call that loads by file name.
add_or_reload_photo(s, filename, iter) ==
    LET exif == s.disk[filename]
        found == IF iter = 0 THEN _find_existing_photo(s.loaded_photos, filename) ELSE iter
        blank == [path |-> filename, timestamp |-> exif.timestamp,
                  lat |-> None, lon |-> None, ele |-> None]
        i == IF found = 0 THEN Len(s.loaded_photos) + 1 ELSE found
        rows == IF found = 0 THEN Append(s.loaded_photos, blank)
                ELSE [s.loaded_photos EXCEPT ![found].path = filename,
                                             ![found].timestamp = exif.timestamp]
        placed == _insert_coordinates([s EXCEPT !.loaded_photos = rows], i,
                                      exif.lat, exif.lon, exif.ele, FALSE)
        clean == [placed EXCEPT !.modified = placed.modified \ {filename}]
    IN update_sensitivity(auto_timestamp_comparison(clean, i))

\* self.photo_selection.selected_foreach(self.apply_single_photo, None); the
\* selection `sel` is a set of row numbers, visited in row order.
RECURSIVE ApplySelected(_, _, _, _)
ApplySelected(s, sel, center, i) ==
    IF i > Len(s.loaded_photos) THEN s
    ELSE ApplySelected(IF i \in sel
                       THEN _insert_coordinates(s, i, center.lat, center.lon, None, TRUE)
                       ELSE s,
                       sel, center, i + 1)

apply_selected_photos(s, sel, center) ==
    update_sensitivity(ApplySelected(s, sel, center, 1))

\* self.photo_selection.selected_foreach(self.add_or_reload_photo, ...)
RECURSIVE RevertSelected(_, _, _)
RevertSelected(s, sel, i) ==
    IF i > Len(s.loaded_photos) THEN s
    ELSE RevertSelected(IF i \in sel
                        THEN add_or_reload_photo(s, s.loaded_photos[i].path, i)
                        ELSE s,
                        sel, i + 1)

revert_selected_photos(s, sel) ==
    update_sensitivity(RevertSelected(s, sel, 1))

\* The rows of `photos` outside `sel`, in order.
RECURSIVE RemoveRows(_, _, _)
RemoveRows(photos, sel, i) ==
    IF i > Len(photos) THEN <<>>
    ELSE (IF i \in sel THEN <<>> ELSE <<photos[i]>>) \o RemoveRows(photos, sel, i + 1)

\* A variant that removes the rows and leaves self.modified alone.
close_selected_photos_rows_only(s, sel) ==
    IF sel = {} THEN s
    ELSE update_sensitivity([s EXCEPT !.loaded_photos = RemoveRows(s.loaded_photos, sel, 1)])

close_selected_photos(s, sel) ==
    IF sel = {} THEN s
    ELSE update_sensitivity(
            [s EXCEPT !.modified = s.modified \ {s.loaded_photos[i].path : i \in sel},
                      !.loaded_photos = RemoveRows(s.loaded_photos, sel, 1)])

\* photos.get_value of a latitude, longitude or altitude: the columns are
\* doubles, and one that was never set reads 0.0.
get_value(x) == IF x = None THEN Float(0) ELSE x

\* What load_exif_from_file reads back from the keys save_one_file writes.
Written(exif, row) ==
    LET altitude == get_value(row.ele)
        latitude == get_value(row.lat)
        longitude == get_value(row.lon)
    IN [exif EXCEPT
          !.datum = "WGS-84",
          !.ele = float_to_rational(altitude),
          !.lat = dms_to_decimal(decimal_to_dms(latitude),
                                 IF latitude[1] > 0 THEN "N" ELSE "S"),
          !.lon = dms_to_decimal(decimal_to_dms(longitude),
                                 IF longitude[1] > 0 THEN "E" ELSE "W")]

\* A variant that writes the file and leaves the photo among the modified.
save_one_file_keeps(s, i, unwritable) ==
    LET row == s.loaded_photos[i]
    IN IF row.path \notin s.modified THEN s
       ELSE IF row.path \in unwritable THEN [s EXCEPT !.exc = "IOError"]
       ELSE [s EXCEPT !.disk[row.path] = Written(@, row)]

\* `unwritable` are the files on which exif.writeMetadata() fails.
save_one_file(s, i, unwritable) ==
    LET row == s.loaded_photos[i]
    IN IF row.path \notin s.modified THEN s
       ELSE IF row.path \in unwritable THEN [s EXCEPT !.exc = "IOError"]
       ELSE [s EXCEPT !.disk[row.path] = Written(@, row),
                      !.modified = @ \ {row.path}]

\* self.loaded_photos.foreach(self.save_one_file, ...).  What becomes of an
\* exception raised in the callback is up to the binding: with `propagates`
\* it ends the loop and the handler, without it the binding reports it and
\* goes on to the next row.
RECURSIVE ForeachSave(_, _, _, _)
ForeachSave(s, i, unwritable, propagates) ==
    IF i > Len(s.loaded_photos) THEN s
    ELSE LET r == save_one_file(s, i, unwritable)
         IN IF r.exc # "" /\ propagates THEN r
            ELSE ForeachSave(r, i + 1, unwritable, propagates)

save_all_files(s, unwritable, propagates) ==
    LET saved == ForeachSave(s, 1, unwritable, propagates)
    IN IF saved.exc # "" /\ propagates THEN saved ELSE update_sensitivity(saved)

\* The body of the loop of add_files_dialog for one chosen file.
LoadOneFile(s, file) ==
    CASE file.kind = "photo" -> add_or_reload_photo(s, file.name, 0)
      [] file.kind = "gpx" -> load_gpx_from_file(s, file.doc)
      [] file.kind = "invalid" ->                        \* ExpatError, caught
            [s EXCEPT !.invalid_files = Append(@, file.name)]
      [] file.kind = "unreadable" -> [s EXCEPT !.exc = "IOError"]

RECURSIVE LoadFiles(_, _)
LoadFiles(s, files) ==
    IF files = <<>> \/ s.exc # "" THEN s
    ELSE LoadFiles(LoadOneFile(s, Head(files)), Tail(files))

(***************************************************************************)
(* The signal handlers.                                                    *)
(***************************************************************************)
\* The object's fields on entry to a handler, with the handler's list of the
\* files it could not open and the area it asks the map view to show.
Entry ==
    [tracks |-> tracks, HIGHEST |-> HIGHEST, LOWEST |-> LOWEST,
     loaded_photos |-> loaded_photos, modified |-> modified,
     time_fudge |-> time_fudge, disk |-> disk, save_button |-> save_button,
     gpx_sensitive |-> gpx_sensitive, exc |-> "", invalid_files |-> <<>>,
     area |-> None]

Return(result, handler) ==
    \E s \in {result} :
        /\ tracks' = s.tracks
        /\ HIGHEST' = s.HIGHEST
        /\ LOWEST' = s.LOWEST
        /\ loaded_photos' = s.loaded_photos
        /\ modified' = s.modified
        /\ time_fudge' = s.time_fudge
        /\ disk' = s.disk
        /\ save_button' = s.save_button
        /\ gpx_sensitive' = s.gpx_sensitive
        /\ op' = handler
        /\ UNCHANGED <<gpxvars, purevars>>

\* __init__, which ends in update_sensitivity().
AppInit ==
    /\ tracks = <<>>
    /\ HIGHEST = None
    /\ LOWEST = None
    /\ loaded_photos = <<>>
    /\ modified = {}
    /\ time_fudge = 0
    /\ disk = [f \in {"a.jpg"} |-> DiskInit[f]]
    /\ save_button = FALSE
    /\ gpx_sensitive = FALSE
    /\ op = "__init__"

\* The application alone: no track file is being parsed.
Init ==
    /\ AppInit
    /\ expat = None /\ parser = None /\ trackfile = None /\ polygons = <<>>
    /\ stamp = None /\ args = None

add_files_dialog ==
    \E files \in Batches : Return(LoadFiles(Entry, files), "add_files_dialog")

\* The Clear button, or Ctrl+x, which key_accel does not gate.
ClearAllGpx ==
    Return(clear_all_gpx(Entry), "clear_all_gpx")

\* "value-changed" of the spin button: the user can turn it only while it is
\* sensitive, and the signal comes only with a new value.
time_fudge_value_changed ==
    /\ gpx_sensitive
    /\ \E v \in FudgeVals \ {time_fudge} :
          Return(ForeachComparison([Entry EXCEPT !.time_fudge = v], 1),
                 "time_fudge_value_changed")

\* "changed" of the photo selection, connected to update_sensitivity.
SelectionChanged ==
    /\ loaded_photos # <<>>
    /\ Return(update_sensitivity(Entry), "update_sensitivity")

\* The centre of the map view, which the Apply button copies to the photos.
MapCenters == {[lat |-> Float(40), lon |-> Float(-70)]}

Selections == SUBSET (1 .. Len(loaded_photos))

\* The Apply button (sensitive when rows are selected), or Ctrl+Return.
ApplySelectedPhotos ==
    \E sel \in Selections, center \in MapCenters :
        Return(apply_selected_photos(Entry, sel, center), "apply_selected_photos")

\* The Revert button, or Ctrl+z: both need unsaved photos.
RevertSelectedPhotos ==
    /\ modified # {}
    /\ \E sel \in Selections :
          Return(revert_selected_photos(Entry, sel), "revert_selected_photos")

\* The Close button (sensitive when rows are selected), or Ctrl+w.
CloseSelectedPhotos ==
    \E sel \in Selections :
        Return(close_selected_photos(Entry, sel), "close_selected_photos")

Next ==
    \/ add_files_dialog
    \/ ClearAllGpx
    \/ time_fudge_value_changed
    \/ SelectionChanged
    \/ ApplySelectedPhotos
    \/ RevertSelectedPhotos
    \/ CloseSelectedPhotos

Spec == Init /\ [][Next]_vars

(***************************************************************************)
(* Python strings are sequences of one-character strings, and the          *)
(* conversions int(), float(), split() and calendar.timegm() work on them  *)
(* character by character.  A conversion that raises yields None.          *)
(***************************************************************************)
DigitChars == <<"0", "1", "2", "3", "4", "5", "6", "7", "8", "9">>

IsDigit(c) == \E i \in 1 .. 10 : DigitChars[i] = c

DigitVal(c) == (CHOOSE i \in 1 .. 10 : DigitChars[i] = c) - 1

IsDigits(str) == str # <<>> /\ \A i \in 1 .. Len(str) : IsDigit(str[i])

RECURSIVE Decimal(_)
Decimal(str) ==
    IF str = <<>> THEN 0
    ELSE 10 * Decimal(SubSeq(str, 1, Len(str) - 1)) + DigitVal(str[Len(str)])

RECURSIVE Pow10(_)
Pow10(n) == IF n = 0 THEN 1 ELSE 10 * Pow10(n - 1)

\* int(str) for a string of digits; any other string raises ValueError.
PyInt(str) == IF IsDigits(str) THEN <<Decimal(str)>> ELSE None

\* float(str) for [-]digits[.digits]; any other string raises ValueError.
PyFloat(str) ==
    LET neg == str # <<>> /\ str[1] = "-"
        body == IF neg THEN Tail(str) ELSE str
        dots == {i \in 1 .. Len(body) : body[i] = "."}
        dot == IF dots = {} THEN Len(body) + 1 ELSE CHOOSE i \in dots : TRUE
        whole == SubSeq(body, 1, dot - 1)
        frac == SubSeq(body, dot + 1, Len(body))
        sign == IF neg THEN -1 ELSE 1
    IN IF Cardinality(dots) > 1 \/ ~IsDigits(whole) \/ (dots # {} /\ ~IsDigits(frac))
       THEN None
       ELSE Rat(sign * (Decimal(whole) * Pow10(Len(frac)) + Decimal(frac)),
                Pow10(Len(frac)))

\* data.strip() == ''
IsBlank(str) == \A i \in 1 .. Len(str) : str[i] \in {" ", "\n", "\t"}

Separators_no_T == {":", "Z", "-"}

\* The characters of the regular expression [:TZ-].
Separators == {":", "T", "Z", "-"}

\* re_compile(r'[:TZ-]').split: the fields between the separators.
RECURSIVE split(_)
split(str) ==
    LET cuts == {i \in 1 .. Len(str) : str[i] \in Separators}
    IN IF cuts = {} THEN <<str>>
       ELSE LET i == CHOOSE c \in cuts : \A d \in cuts : c <= d
            IN <<SubSeq(str, 1, i - 1)>> \o split(SubSeq(str, i + 1, Len(str)))

EPOCH_ORD == 719163

mdays == <<31, 28, 31, 30, 31, 30, 31, 31, 30, 31, 30, 31>>

isleap(year) == year % 4 = 0 /\ (year % 100 # 0 \/ year % 400 = 0)

RECURSIVE DaysBeforeMonth(_, _)
DaysBeforeMonth(year, month) ==
    IF month = 1 THEN 0
    ELSE DaysBeforeMonth(year, month - 1) + mdays[month - 1]
         + (IF month - 1 = 2 /\ isleap(year) THEN 1 ELSE 0)

\* datetime.date(year, month, day).toordinal()
toordinal(year, month, day) ==
    LET y == year - 1
    IN y * 365 + y \div 4 - y \div 100 + y \div 400 + DaysBeforeMonth(year, month) + day

\* calendar.timegm of six integers, for a month from 1 to 12.
timegm(t) ==
    LET days == toordinal(t[1], t[2], 1) - EPOCH_ORD + t[3] - 1
        hours == days * 24 + t[4]
        minutes == hours * 60 + t[5]
    IN minutes * 60 + t[6]

\* timegm(map(int, split(state['time'])[0:6])): None when int() or the
\* unpacking of six values raises.
GPXTimestamp(str) ==
    LET fields == split(str)
        six == SubSeq(fields, 1, IF Len(fields) < 6 THEN Len(fields) ELSE 6)
        ints == [i \in 1 .. Len(six) |-> PyInt(six[i])]
    IN IF Len(six) < 6 \/ \E i \in 1 .. Len(six) : ints[i] = None
       THEN None
       ELSE LET t == [i \in 1 .. 6 |-> ints[i][1]]
            IN IF t[2] \in 1 .. 12 /\ t[1] \in 1 .. 9999 THEN <<timegm(t)>> ELSE None

(***************************************************************************)
(* gg/xmlfiles.py: XMLSimpleParser, TrackFile and GPXFile.  `g` is the     *)
(* record of the fields of the GPXFile and of its XMLSimpleParser, plus    *)
(* the polygons of the map, `calls`, the number of times call_start or     *)
(* call_end was invoked, and `exc`, the exception on its way out.          *)
(***************************************************************************)
rootname == "gpx"

watchlist == {"trkseg", "trkpt"}

\* A dict with the items of `new` put over those of `old`.
Update(old, new) ==
    [k \in DOMAIN old \cup DOMAIN new |-> IF k \in DOMAIN new THEN new[k] ELSE old[k]]

\* common.add_polygon_to_map(): a new, empty polygon on the map; what it
\* returns appends to that polygon.
add_polygon_to_map(g) ==
    [g EXCEPT !.polygons = Append(g.polygons, <<>>),
              !.append = <<Len(g.polygons) + 1>>]

\* self.append(lat, lon, ele): the point goes to the polygon that
\* self.append belongs to; calling None raises TypeError.
AppendPoint(g, point) ==
    IF g.append = None THEN [g EXCEPT !.exc = "TypeError"]
    ELSE [g EXCEPT !.polygons[g.append[1]] = Append(@, point)]

element_root_any(g, name, attributes) ==
    [g EXCEPT !.StartElementHandler = "element_start"]

element_root(g, name, attributes) ==
    IF name # g.rootname THEN [g EXCEPT !.exc = "IOError"]
    ELSE [g EXCEPT !.StartElementHandler = "element_start"]

GPXFile_element_start_trkpt(g, name, attributes) ==
    [g |-> IF name = "trkpt" THEN add_polygon_to_map(g) ELSE g, ret |-> name = "trkpt"]

\* GPXFile.element_start: the file object after the call, and what it returns.
GPXFile_element_start(g, name, attributes) ==
    [g |-> IF name = "trkseg" THEN add_polygon_to_map(g) ELSE g, ret |-> name = "trkpt"]

\* KMLFile.element_start: a new polygon for each gx:Track, which is not
\* tracked itself; when and gx:coord are.
KMLFile_element_start(g, name, attributes) ==
    [g |-> IF name = "gx:Track" THEN add_polygon_to_map(g) ELSE g,
     ret |-> name # "gx:Track"]

\* self.call_start(name, attributes): the method given to parse().
call_start(g, name, attributes) ==
    IF g.call_start = "KMLFile.element_start"
    THEN KMLFile_element_start(g, name, attributes)
    ELSE GPXFile_element_start(g, name, attributes)

XMLSimpleParser_element_start(g, name, attributes) ==
    LET called == call_start([g EXCEPT !.calls = @ + 1], name, attributes)
        g1 == IF g.tracking # None THEN g
              ELSE IF name \notin g.watchlist THEN g
              ELSE IF called.ret
              THEN [called.g EXCEPT !.tracking = <<name>>,
                                    !.CharacterDataHandler = "element_data",
                                    !.EndElementHandler = "element_end"]
              ELSE called.g
    IN IF g1.tracking # None
       THEN [g1 EXCEPT !.element = <<name>>,
                       !.state = Update(Update(g1.state, [k \in {name} |-> <<>>]),
                                        attributes)]
       ELSE g1

element_data(g, data) ==
    IF data = <<>> \/ IsBlank(data) THEN g
    ELSE [g EXCEPT !.state[g.element[1]] = @ \o data]

\* GPXFile.element_end; the pulse of the progress bar leaves the fields alone.
GPXFile_element_end(g, name, state) ==
    IF name # "trkpt" THEN g
    ELSE LET has(k) == k \in DOMAIN state
             timestamp == IF has("time") THEN GPXTimestamp(state["time"]) ELSE None
             lat == IF has("lat") THEN PyFloat(state["lat"]) ELSE None
             lon == IF has("lon") THEN PyFloat(state["lon"]) ELSE None
             ele == IF has("ele") THEN PyFloat(state["ele"]) ELSE Float(0)
         IN IF timestamp = None \/ lat = None \/ lon = None THEN g
            ELSE IF ele = None THEN [g EXCEPT !.exc = "ValueError"]
            ELSE LET point == [lat |-> lat, lon |-> lon, ele |-> ele]
                     appended == AppendPoint(g, point)
                 IN IF appended.exc # "" THEN appended
                    ELSE [appended EXCEPT
                            !.tracks = Update(@, [k \in {timestamp[1]} |-> point])]

WhiteSpace == {" ", "\n", "\t"}

\* str.split(): the words between runs of white space.
RECURSIVE PySplit(_)
PySplit(str) ==
    LET inked == {i \in 1 .. Len(str) : str[i] \notin WhiteSpace}
    IN IF inked = {} THEN <<>>
       ELSE LET first == CHOOSE i \in inked : \A j \in inked : i <= j
                gaps == {i \in first .. Len(str) : str[i] \in WhiteSpace}
                stop == IF gaps = {} THEN Len(str) + 1
                        ELSE CHOOSE i \in gaps : \A j \in gaps : i <= j
            IN <<SubSeq(str, first, stop - 1)>> \o PySplit(SubSeq(str, stop, Len(str)))

\* dateutil's parse(str).utctimetuple(), for the ISO 8601 form
\* YYYY-MM-DDTHH:MM:SSZ: the six fields; any other string of the model is no
\* date and raises ValueError.
parse_date(str) ==
    LET fields == split(str)
        wellformed == /\ Len(str) = 20 /\ Len(fields) = 7
                      /\ str[5] = "-" /\ str[8] = "-" /\ str[11] = "T"
                      /\ str[14] = ":" /\ str[17] = ":" /\ str[20] = "Z"
                      /\ \A i \in 1 .. 6 : IsDigits(fields[i])
    IN IF wellformed THEN [i \in 1 .. 6 |-> Decimal(fields[i])] ELSE None

\* The first exception of float(c[1]), float(c[0]), float(c[2]), in that
\* order, for the words c of a gx:coord; "" when there is none.
CoordError(c) ==
    LET err(j) == IF Len(c) < j THEN "IndexError"
                  ELSE IF PyFloat(c[j]) = None THEN "ValueError" ELSE ""
    IN IF err(2) # "" THEN err(2) ELSE IF err(1) # "" THEN err(1) ELSE err(3)

Rest_none(queue, complete) == <<>>

\* A variant that leaves the last paired entry at the front of the queue.
Rest_from_last(queue, complete) ==
    IF complete = 0 THEN queue ELSE SubSeq(queue, complete, Len(queue))

\* queue[complete:]
Rest(queue, complete) == SubSeq(queue, complete + 1, Len(queue))

\* for i in range(0, complete): self.tracks[self.whens[i]] = self.append(...)
RECURSIVE EmitPairs(_, _, _)
EmitPairs(g, i, complete) ==
    IF i > complete \/ g.exc # "" THEN g
    ELSE LET c == g.coords[i]
         IN IF CoordError(c) # "" THEN [g EXCEPT !.exc = CoordError(c)]
            ELSE LET point == [lat |-> PyFloat(c[2]), lon |-> PyFloat(c[1]),
                               ele |-> PyFloat(c[3])]
                     appended == AppendPoint(g, point)
                 IN IF appended.exc # "" THEN appended
                    ELSE EmitPairs([appended EXCEPT
                                      !.tracks = Update(@, [k \in {g.whens[i]} |-> point])],
                                   i + 1, complete)

KMLFile_element_end(g, name, state) ==
    LET date == IF name = "when" THEN parse_date(state["when"]) ELSE None
        queued == IF name = "when" THEN [g EXCEPT !.whens = Append(@, timegm(date))]
                  ELSE IF name = "gx:coord"
                  THEN [g EXCEPT !.coords = Append(@, PySplit(state["gx:coord"]))]
                  ELSE g
        complete == IF Len(queued.whens) < Len(queued.coords)
                    THEN Len(queued.whens) ELSE Len(queued.coords)
        emitted == EmitPairs(queued, 1, complete)
    IN IF name = "when" /\ date = None THEN g
       ELSE IF emitted.exc # "" THEN emitted
       ELSE [emitted EXCEPT !.whens = Rest(@, complete), !.coords = Rest(@, complete)]

\* self.call_end(name, self.state): the method given to parse().
call_end(g, name, state) ==
    IF g.call_end = "KMLFile.element_end"
    THEN KMLFile_element_end(g, name, state)
    ELSE GPXFile_element_end(g, name, state)

XMLSimpleParser_element_end_keeps(g, name) ==
    IF <<name>> # g.tracking THEN g
    ELSE LET called == call_end([g EXCEPT !.calls = @ + 1], name, g.state)
         IN IF called.exc # "" THEN called
            ELSE [called EXCEPT !.tracking = None,
                                !.CharacterDataHandler = "None",
                                !.EndElementHandler = "None"]

\* A parser that calls back at the end of every element while one is tracked.
XMLSimpleParser_element_end_any(g, name) ==
    IF g.tracking = None THEN g
    ELSE LET called == call_end([g EXCEPT !.calls = @ + 1], name, g.state)
         IN IF called.exc # "" THEN called
            ELSE [called EXCEPT !.tracking = None,
                                !.state = <<>>,
                                !.CharacterDataHandler = "None",
                                !.EndElementHandler = "None"]

XMLSimpleParser_element_end(g, name) ==
    IF <<name>> # g.tracking THEN g
    ELSE LET called == call_end([g EXCEPT !.calls = @ + 1], name, g.state)
         IN IF called.exc # "" THEN called
            ELSE [called EXCEPT !.tracking = None,
                                !.state = <<>>,
                                !.CharacterDataHandler = "None",
                                !.EndElementHandler = "None"]

\* The end of TrackFile.__init__, once ParseFile has returned.
MinOf(S) == CHOOSE k \in S : \A j \in S : k <= j
MaxOf(S) == CHOOSE k \in S : \A j \in S : k >= j

TrackFile_finish(g) ==
    IF DOMAIN g.tracks = {} THEN [g EXCEPT !.exc = "ValueError"]   \* min([])
    ELSE [g EXCEPT !.alpha = <<MinOf(DOMAIN g.tracks)>>,
                   !.omega = <<MaxOf(DOMAIN g.tracks)>>]

(***************************************************************************)
(* The documents expat reads.  A document is read as a stream of events:   *)
(* the start of an element with its attributes, a chunk of character data, *)
(* the end of the element.  The elements nest as in a GPX file (gpx > trk  *)
(* > trkseg > trkpt > time, ele), the root may also be kml, and the text   *)
(* of an element may come in more than one chunk.  `expat` holds the open  *)
(* elements and, as history, what the document has said so far: its root,  *)
(* the number of trk, trkseg and trkpt elements, the attributes and the    *)
(* children of the open trkpt (`cur`), the points of the closed trkpt      *)
(* elements that were complete, by trkseg (`expected`), the number of      *)
(* trkpt elements that lacked lat, lon or time (`dropped`) and the kind of *)
(* the trkpt closed last (`last`).                                         *)
(***************************************************************************)
MaxTrks == 1
MaxSegs == 2
MaxTrkpts == 3

T_2010 == <<"2", "0", "1", "0", "-", "1", "0", "-", "1", "6", "T",
            "2", "0", ":", "0", "9", ":", "1", "3", "Z">>

T_2010_date == SubSeq(T_2010, 1, 11)
T_2010_time == SubSeq(T_2010, 12, 20)

T_1970 == <<"1", "9", "7", "0", "-", "0", "1", "-", "0", "1", "T",
            "0", "0", ":", "0", "0", ":", "0", "7", "Z">>

T_slashes == <<"1", "6", "/", "1", "0", "/", "2", "0", "1", "0">>

Blank == <<"\n", " ">>

\* The texts a <time> and an <ele> can hold, and the chunks they come in.
Texts(name) ==
    IF name = "time" THEN {T_2010, T_2010_date, T_1970, T_slashes}
    ELSE {<<"5">>, <<"x">>}

Pieces == {T_2010, T_2010_date, T_2010_time, T_1970, T_slashes, <<"5">>, <<"x">>}

\* The lat and lon attributes a <trkpt> can have.
TrkptAttributes ==
    {[lat |-> <<"1", "0">>, lon |-> <<"2", "0">>],
     [lat |-> <<"-", "1", "2", ".", "5">>, lon |-> <<"2", "6">>],
     [lat |-> <<"a", "b", "c">>, lon |-> <<"2", "0">>],
     [lat |-> <<"1", "0">>]}

\* What the document means by its texts: the epoch second of a time, the
\* number of a lat, lon or ele; None for a text that means neither.
EpochOf(text) ==
    CASE text = T_2010 -> <<1287259753>>
      [] text = T_1970 -> <<7>>
      [] OTHER -> None

NumberOf(text) ==
    CASE text = <<"1", "0">> -> Float(10)
      [] text = <<"2", "0">> -> Float(20)
      [] text = <<"2", "6">> -> Float(26)
      [] text = <<"5">> -> Float(5)
      [] text = <<"-", "1", "2", ".", "5">> -> <<-25, 2>>
      [] OTHER -> None

NoPoint == [attrs |-> <<>>, kids |-> <<>>]

Top == expat.stack[Len(expat.stack)]

\* Whether the trkpt `cur` has a lat, a lon and a time that mean something.
Complete(cur) ==
    /\ "lat" \in DOMAIN cur.attrs /\ NumberOf(cur.attrs["lat"]) # None
    /\ "lon" \in DOMAIN cur.attrs /\ NumberOf(cur.attrs["lon"]) # None
    /\ "time" \in DOMAIN cur.kids /\ EpochOf(cur.kids["time"]) # None

EleOf(cur) == IF "ele" \in DOMAIN cur.kids THEN NumberOf(cur.kids["ele"]) ELSE Float(0)

KindOf(cur) ==
    IF ~Complete(cur) THEN "incomplete"
    ELSE IF EleOf(cur) = None THEN "bad ele" ELSE "complete"

PointOf(cur) ==
    [lat |-> NumberOf(cur.attrs["lat"]), lon |-> NumberOf(cur.attrs["lon"]),
     ele |-> EleOf(cur)]

\* The elements that can start next.
NextNames ==
    IF expat.root = None THEN {"gpx", "kml"}
    ELSE IF expat.stack = <<>> THEN {}
    ELSE CASE Top = "gpx" -> IF expat.trks < MaxTrks THEN {"trk"} ELSE {}
           [] Top = "trk" -> IF expat.segs < MaxSegs THEN {"trkseg"} ELSE {}
           [] Top = "trkseg" -> IF expat.pts < MaxTrkpts THEN {"trkpt"} ELSE {}
           [] Top = "trkpt" -> {"time", "ele"} \ DOMAIN expat.cur.kids
           [] OTHER -> {}

AttributesOf(name) == IF name = "trkpt" THEN TrkptAttributes ELSE {<<>>}

\* The chunks of character data that can come next.
NextChunks ==
    IF Top \in {"time", "ele"}
    THEN {c \in Pieces : expat.cur.kids[Top] \o c \in Texts(Top)}
    ELSE {Blank}

Started(name, attributes) ==
    [expat EXCEPT
        !.stack = Append(@, name),
        !.root = IF @ = None THEN <<name>> ELSE @,
        !.trks = IF name = "trk" THEN @ + 1 ELSE @,
        !.segs = IF name = "trkseg" THEN @ + 1 ELSE @,
        !.pts = IF name = "trkpt" THEN @ + 1 ELSE @,
        !.cur = IF name = "trkpt" THEN [attrs |-> attributes, kids |-> <<>>]
                ELSE IF name \in {"time", "ele"}
                THEN [@ EXCEPT !.kids = Update(@, [k \in {name} |-> <<>>])]
                ELSE @,
        !.expected = IF name = "trkseg" THEN Append(@, <<>>) ELSE @]

Said(data) ==
    IF Top \in {"time", "ele"} THEN [expat EXCEPT !.cur.kids[Top] = @ \o data]
    ELSE expat

Ended ==
    LET kind == KindOf(expat.cur)
        popped == [expat EXCEPT !.stack = SubSeq(@, 1, Len(@) - 1),
                                !.eof = (Len(expat.stack) = 1)]
    IN IF Top # "trkpt" THEN popped
       ELSE [popped EXCEPT
                !.cur = NoPoint,
                !.last = kind,
                !.dropped = IF kind = "incomplete" THEN @ + 1 ELSE @,
                !.expected = IF kind = "complete"
                             THEN [@ EXCEPT ![Len(@)] =
                                     Append(@, [t |-> EpochOf(expat.cur.kids["time"])[1],
                                                p |-> PointOf(expat.cur)])]
                             ELSE @]

(***************************************************************************)
(* GPXFile(filename, progress): the callbacks of one parse.                *)
(***************************************************************************)
ParserFields == {"rootname", "watchlist", "call_start", "call_end",
                 "StartElementHandler", "CharacterDataHandler", "EndElementHandler",
                 "element", "tracking", "state", "calls"}

GEntry == parser @@ trackfile @@ [polygons |-> polygons]

GReturn(result, document) ==
    \E g \in {result} :
        /\ parser' = [k \in ParserFields |-> g[k]]
        /\ trackfile' = [k \in DOMAIN trackfile |-> g[k]]
        /\ polygons' = g.polygons
        /\ expat' = document
        /\ UNCHANGED <<appvars, purevars>>

\* ParseFile is still reading: no exception has ended it, nor the end of file.
Parsing == trackfile.exc = "" /\ ~expat.eof

StartElement ==
    /\ Parsing
    /\ \E name \in NextNames :
         \E attributes \in AttributesOf(name) :
            GReturn(IF parser.StartElementHandler = "element_root"
                    THEN element_root(GEntry, name, attributes)
                    ELSE XMLSimpleParser_element_start(GEntry, name, attributes),
                    Started(name, attributes))

CharacterData ==
    /\ Parsing
    /\ expat.stack # <<>>
    /\ \E data \in NextChunks :
          GReturn(IF parser.CharacterDataHandler = "None" THEN GEntry
                  ELSE element_data(GEntry, data),
                  Said(data))

\* The end of the root element is the end of the file: ParseFile returns and
\* TrackFile.__init__ goes on.
EndElement ==
    /\ Parsing
    /\ expat.stack # <<>>
    /\ LET ended == IF parser.EndElementHandler = "None" THEN GEntry
                    ELSE XMLSimpleParser_element_end(GEntry, Top)
       IN GReturn(IF Len(expat.stack) = 1 /\ ended.exc = ""
                  THEN TrackFile_finish(ended) ELSE ended,
                  Ended)

\* A syntax error in the file: parse() turns ExpatError into IOError.
ExpatError ==
    /\ Parsing
    /\ GReturn([GEntry EXCEPT !.exc = "IOError"], expat)

InitGPX ==
    /\ AppInit
    /\ stamp = None /\ args = None
    /\ expat = [stack |-> <<>>, root |-> None, trks |-> 0, segs |-> 0, pts |-> 0,
                cur |-> NoPoint, expected |-> <<>>, dropped |-> 0, last |-> "",
                eof |-> FALSE]
    /\ parser = [rootname |-> rootname, watchlist |-> watchlist,
                 call_start |-> "GPXFile.element_start",
                 call_end |-> "GPXFile.element_end",
                 StartElementHandler |-> "element_root",
                 CharacterDataHandler |-> "None", EndElementHandler |-> "None",
                 element |-> None, tracking |-> None, state |-> <<>>, calls |-> 0]
    /\ trackfile = [append |-> None, tracks |-> <<>>, alpha |-> None, omega |-> None,
                    exc |-> ""]
    /\ polygons = <<>>

NextGPX ==
    \/ StartElement
    \/ CharacterData
    \/ EndElement
    \/ ExpatError

SpecGPX == InitGPX /\ [][NextGPX]_vars

(***************************************************************************)
(* KMLFile(filename, progress): the callbacks of one parse.  The document  *)
(* nests as kml > Placemark > gx:Track > when, gx:coord, the when and      *)
(* gx:coord elements of a gx:Track in any order; `expat` holds the open    *)
(* elements, the text of the open when or gx:coord said so far, the        *)
(* numbers of Placemark, gx:Track, when and gx:coord elements and, as      *)
(* history, the texts of the when elements of the open gx:Track that have *)
(* closed (`seen`) and the number of its gx:coord elements that have       *)
(* closed (`nth`).                                                         *)
(***************************************************************************)
MaxPlacemarks == 1
MaxKmlTracks == 2
MaxWhens == 3
MaxCoords == 3

kml_rootname == "kml"

kml_watchlist == {"gx:Track", "when", "gx:coord"}

K_20_10_5 == <<"2", "0", " ", "1", "0", " ", "5">>

K_26_12_0 == <<"2", "6", " ", "-", "1", "2", ".", "5", " ", "0">>

K_20 == SubSeq(K_20_10_5, 1, 3)

K_10_5 == SubSeq(K_20_10_5, 4, 7)

\* The texts a <when> and a <gx:coord> can hold, and the chunks they come in.
KmlTexts(name) ==
    IF name = "when" THEN {T_2010, T_1970, <<"x">>}
    ELSE {K_20_10_5, K_26_12_0, K_20}

KmlPieces == {T_2010, T_1970, <<"x">>, K_20_10_5, K_26_12_0, K_20, K_10_5}

KmlNextNames ==
    IF expat.root = None THEN {"kml", "gpx"}
    ELSE IF expat.stack = <<>> THEN {}
    ELSE CASE Top = "kml" -> IF expat.marks < MaxPlacemarks THEN {"Placemark"} ELSE {}
           [] Top = "Placemark" -> IF expat.trks < MaxKmlTracks THEN {"gx:Track"} ELSE {}
           [] Top = "gx:Track" ->
                (IF expat.whens < MaxWhens THEN {"when"} ELSE {})
                \cup (IF expat.coords < MaxCoords THEN {"gx:coord"} ELSE {})
           [] OTHER -> {}

KmlNextChunks ==
    IF Top \in {"when", "gx:coord"}
    THEN {c \in KmlPieces : expat.text \o c \in KmlTexts(Top)}
    ELSE {Blank}

KmlStarted(name) ==
    [expat EXCEPT
        !.stack = Append(@, name),
        !.root = IF @ = None THEN <<name>> ELSE @,
        !.marks = IF name = "Placemark" THEN @ + 1 ELSE @,
        !.trks = IF name = "gx:Track" THEN @ + 1 ELSE @,
        !.whens = IF name = "when" THEN @ + 1 ELSE @,
        !.coords = IF name = "gx:coord" THEN @ + 1 ELSE @,
        !.seen = IF name = "gx:Track" THEN <<>> ELSE @,
        !.nth = IF name = "gx:Track" THEN 0 ELSE @,
        !.text = <<>>]

KmlSaid(data) ==
    IF Top \in {"when", "gx:coord"} THEN [expat EXCEPT !.text = @ \o data] ELSE expat

KmlEnded ==
    [expat EXCEPT !.stack = SubSeq(@, 1, Len(@) - 1),
                  !.eof = (Len(expat.stack) = 1),
                  !.seen = IF Top = "when" THEN Append(@, expat.text) ELSE @,
                  !.nth = IF Top = "gx:coord" THEN @ + 1 ELSE @,
                  !.text = <<>>]

KmlStartElement ==
    /\ Parsing
    /\ \E name \in KmlNextNames :
          GReturn(IF parser.StartElementHandler = "element_root"
                  THEN element_root(GEntry, name, <<>>)
                  ELSE XMLSimpleParser_element_start(GEntry, name, <<>>),
                  KmlStarted(name))

KmlCharacterData ==
    /\ Parsing
    /\ expat.stack # <<>>
    /\ \E data \in KmlNextChunks :
          GReturn(IF parser.CharacterDataHandler = "None" THEN GEntry
                  ELSE element_data(GEntry, data),
                  KmlSaid(data))

KmlEndElement ==
    /\ Parsing
    /\ expat.stack # <<>>
    /\ LET ended == IF parser.EndElementHandler = "None" THEN GEntry
                    ELSE XMLSimpleParser_element_end(GEntry, Top)
       IN GReturn(IF Len(expat.stack) = 1 /\ ended.exc = ""
                  THEN TrackFile_finish(ended) ELSE ended,
                  KmlEnded)

InitKML ==
    /\ AppInit
    /\ stamp = None /\ args = None
    /\ expat = [stack |-> <<>>, root |-> None, marks |-> 0, trks |-> 0, whens |-> 0,
                coords |-> 0, text |-> <<>>, seen |-> <<>>, nth |-> 0, eof |-> FALSE]
    /\ parser = [rootname |-> kml_rootname, watchlist |-> kml_watchlist,
                 call_start |-> "KMLFile.element_start",
                 call_end |-> "KMLFile.element_end",
                 StartElementHandler |-> "element_root",
                 CharacterDataHandler |-> "None", EndElementHandler |-> "None",
                 element |-> None, tracking |-> None, state |-> <<>>, calls |-> 0]
    /\ trackfile = [whens |-> <<>>, coords |-> <<>>, append |-> None, tracks |-> <<>>,
                    alpha |-> None, omega |-> None, exc |-> ""]
    /\ polygons = <<>>

NextKML ==
    \/ KmlStartElement
    \/ KmlCharacterData
    \/ KmlEndElement
    \/ ExpatError

SpecKML == InitKML /\ [][NextKML]_vars

(***************************************************************************)
(* The conversion of a GPX time string on its own: `stamp` holds the text  *)
(* of a <time> element and, once GPXFile.element_end has converted it, the *)
(* epoch second (None when the conversion raised).                         *)
(***************************************************************************)
Years == {1970, 2010, 2012}
Months == {1, 2, 3, 10, 12}
Days == {1, 16, 28}
Hours == {0, 20}
Minutes == {9}
Seconds == {13, 59}

\* The decimal digits of n, zero-padded to `width` characters.
Pad(n, width) == [i \in 1 .. width |-> DigitChars[((n \div Pow10(width - i)) % 10) + 1]]

\* YYYY-MM-DDTHH:MM:SSZ
Stamp(y, mo, d, h, mi, s) ==
    Pad(y, 4) \o <<"-">> \o Pad(mo, 2) \o <<"-">> \o Pad(d, 2) \o <<"T">>
    \o Pad(h, 2) \o <<":">> \o Pad(mi, 2) \o <<":">> \o Pad(s, 2) \o <<"Z">>

TimeStrings ==
    {Stamp(y, mo, d, h, mi, s) :
        y \in Years, mo \in Months, d \in Days, h \in Hours, mi \in Minutes, s \in Seconds}
    \cup {T_2010, T_1970, T_2010_date, T_2010_time, T_slashes, <<>>}

InitTime ==
    /\ AppInit
    /\ expat = None /\ parser = None /\ trackfile = None /\ polygons = <<>>
    /\ stamp \in [text : TimeStrings, done : {FALSE}, timestamp : {None}]
    /\ args = None

Convert ==
    /\ ~stamp.done
    /\ stamp' = [stamp EXCEPT !.done = TRUE, !.timestamp = GPXTimestamp(stamp.text)]
    /\ UNCHANGED <<appvars, gpxvars, args>>

NextTime == Convert

SpecTime == InitTime /\ [][NextTime]_vars

(***************************************************************************)
(* The manual placement on its own: one loaded photo, with or without      *)
(* coordinates, modified or not, and the Apply button pressed with the     *)
(* photo selected while the map view reports `args` as its centre: any     *)
(* latitude and longitude, in range, out of range or None.                 *)
(***************************************************************************)
Latitudes == {None, Float(-91), Float(-90), Float(40), Float(90), <<181, 2>>}

Longitudes == {None, Float(-181), Float(-180), Float(-70), Float(180), <<361, 2>>}

PhotoRows ==
    [path : {"a.jpg"}, timestamp : {1}, lat : {None}, lon : {None}, ele : {None, Float(30)}]
    \cup [path : {"a.jpg"}, timestamp : {1}, lat : {Float(50)}, lon : {Float(60)},
          ele : {None, Float(30)}]

InitApply ==
    /\ tracks = <<>>
    /\ HIGHEST = None
    /\ LOWEST = None
    /\ \E row \in PhotoRows : loaded_photos = <<row>>
    /\ modified \in {{}, {"a.jpg"}}
    /\ time_fudge = 0
    /\ disk = [f \in {"a.jpg"} |-> DiskInit[f]]
    /\ save_button = (modified # {})
    /\ gpx_sensitive = FALSE
    /\ op = "__init__"
    /\ expat = None /\ parser = None /\ trackfile = None /\ polygons = <<>>
    /\ stamp = None
    /\ args \in [lat : Latitudes, lon : Longitudes]

ApplyAtCentre ==
    /\ op = "__init__"
    /\ Return(apply_selected_photos(Entry, {1}, args), "apply_selected_photos")

NextApply == ApplyAtCentre

SpecApply == InitApply /\ [][NextApply]_vars

(***************************************************************************)
(* Batches: two photo files on disk, a track file of two points, and the   *)
(* files that fail: "bad.gpx" has a trkpt without <ele> after its first    *)
(* point, "waypoints.gpx" is GPX without any trk, "notes.txt" is not XML,  *)
(* "gone.jpg" cannot be read.  The user opens up to BatchLen files at a    *)
(* time, places photos by hand and saves.                                  *)
(***************************************************************************)
BatchLen == 2

TwoPoints ==
    [pts |-> <<[t |-> 0, v |-> [lat |-> 10, lon |-> 20, ele |-> 5]],
               [t |-> MaxTime, v |-> [lat |-> 12, lon |-> 26, ele |-> 0]]>>,
     crash |-> FALSE]

Truncated ==
    [pts |-> <<[t |-> 0, v |-> [lat |-> 10, lon |-> 20, ele |-> 5]]>>, crash |-> TRUE]

BatchFiles ==
    [kind : {"photo"}, name : PhotoFiles, doc : {NoDoc}]
    \cup {[kind |-> "gpx", name |-> "t.gpx", doc |-> TwoPoints],
          [kind |-> "gpx", name |-> "bad.gpx", doc |-> Truncated],
          [kind |-> "gpx", name |-> "waypoints.gpx", doc |-> NoDoc],
          [kind |-> "invalid", name |-> "notes.txt", doc |-> NoDoc],
          [kind |-> "unreadable", name |-> "gone.jpg", doc |-> NoDoc]}

BatchLists ==
    {b \in SeqsUpTo(BatchFiles, BatchLen) :
        b # <<>> /\ \A i, j \in 1 .. Len(b) : b[i].name = b[j].name => i = j}

InitBatch ==
    /\ tracks = <<>>
    /\ HIGHEST = None
    /\ LOWEST = None
    /\ loaded_photos = <<>>
    /\ modified = {}
    /\ time_fudge = 0
    /\ disk = DiskInit
    /\ save_button = FALSE
    /\ gpx_sensitive = FALSE
    /\ op = "__init__"
    /\ expat = None /\ parser = None /\ trackfile = None /\ polygons = <<>>
    /\ stamp = None
    /\ args = None

\* The Open button with several files chosen.
OpenBatch ==
    \E files \in BatchLists : Return(LoadFiles(Entry, files), "add_files_dialog")

\* The Save button, or Ctrl+s, which needs unsaved photos.
SaveAllFiles ==
    /\ save_button \/ modified # {}
    /\ \E unwritable \in SUBSET PhotoFiles, propagates \in BOOLEAN :
          Return(save_all_files(Entry, unwritable, propagates), "save_all_files")

NextBatch ==
    \/ OpenBatch
    \/ ApplySelectedPhotos
    \/ SaveAllFiles

SpecBatch == InitBatch /\ [][NextBatch]_vars

(***************************************************************************)
(* The photo store under every handler that touches it: the files of       *)
(* BatchFiles are opened, photos are placed by hand or by the track, the   *)
(* clock offset is turned, and photos are saved, reverted and closed.      *)
(***************************************************************************)
NextStore ==
    \/ OpenBatch
    \/ ApplySelectedPhotos
    \/ time_fudge_value_changed
    \/ SaveAllFiles
    \/ RevertSelectedPhotos
    \/ CloseSelectedPhotos

SpecStore == InitBatch /\ [][NextStore]_vars

(***************************************************************************)
(* The coordinate conversion on its own: a decimal of [-180, 180] is taken *)
(* to degrees, minutes and seconds and back with the hemisphere that       *)
(* save_one_file writes beside it.  The decimals are whole seconds and     *)
(* simple fractions of a second at any degree, and seconds a few hundred   *)
(* thousandths off a whole second near the equator.                        *)
(***************************************************************************)
DmsDegrees == {0, 40, 179}
DmsMinutes == {0, 30, 59}
DmsSeconds == {Float(0), <<1, 2>>, <<1, 3>>, Float(59)}
OffSeconds == {<<1, 25000>>, <<750001, 25000>>, <<1, 12500>>, <<3, 12500>>}

FromParts(sign, deg, min, sec) ==
    LET sum == RatAdd(Float(deg), RatAdd(RatOver(Float(min), 60), RatOver(sec, 3600)))
    IN <<sign * sum[1], sum[2]>>

Decimals ==
    {FromParts(sign, deg, min, sec) :
        sign \in {1, -1}, deg \in DmsDegrees, min \in DmsMinutes, sec \in DmsSeconds}
    \cup {FromParts(sign, deg, min, sec) :
            sign \in {1, -1}, deg \in {0, 1}, min \in {0, 1}, sec \in OffSeconds}
    \cup {Float(180), Float(-180)}

InitDMS ==
    /\ AppInit
    /\ expat = None /\ parser = None /\ trackfile = None /\ polygons = <<>>
    /\ stamp = None
    /\ args \in [decimal : Decimals, dms : {None}, back : {None}]

\* decimal_to_dms as save_one_file calls it, then dms_to_decimal as
\* load_exif_from_file calls it on what was written.
RoundTrip ==
    /\ args.dms = None
    /\ LET dms == decimal_to_dms(args.decimal)
           ref == IF args.decimal[1] > 0 THEN "N" ELSE "S"
       IN args' = [args EXCEPT !.dms = dms, !.back = dms_to_decimal(dms, ref)]
    /\ UNCHANGED <<appvars, gpxvars, stamp>>

NextDMS == RoundTrip

SpecDMS == InitDMS /\ [][NextDMS]_vars

(***************************************************************************)
(* The interpolation in the arithmetic of the machine.  Blend above gives  *)
(* the exact value of (a * low_perc) + (b * high_perc); a Python float is  *)
(* an IEEE 754 double, and the division, the two products and the sum are  *)
(* each rounded to a mantissa of MantissaBits bits, to nearest, ties to    *)
(* even.  A natural number is the sequence of its bits, lowest first, and  *)
(* a double that is not negative is [m, e] for m * 2^e.  The coordinates   *)
(* of the two neighbours are whole numbers, which a double holds exactly.  *)
(***************************************************************************)
MantissaBits == 53

\* The arithmetic on bit sequences goes LimbBits bits at a time, and the
\* quotient is carried to QuotientLimbs * LimbBits binary places before it
\* is rounded.
LimbBits == 15
LimbBase == 2 ^ LimbBits
QuotientLimbs == 4
QuotientBits == QuotientLimbs * LimbBits

MaxDelta == 13

Zeros(k) == [i \in 1 .. k |-> 0]

\* The bits of n without the zeros above its highest one.
Trim(n) ==
    LET ones == {i \in 1 .. Len(n) : n[i] = 1}
    IN IF ones = {} THEN <<>>
       ELSE SubSeq(n, 1, CHOOSE i \in ones : \A j \in ones : j <= i)

\* The lowest `width` bits of the number k.
BitsOf(k, width) == [i \in 1 .. width |-> (k \div (2 ^ (i - 1))) % 2]

\* The number held by the bits from..from + LimbBits - 1 of n.
RECURSIVE LimbValue(_, _, _)
LimbValue(n, from, i) ==
    IF i = LimbBits THEN 0
    ELSE (IF from + i <= Len(n) THEN n[from + i] ELSE 0)
         + 2 * LimbValue(n, from, i + 1)

Limbs(n) ==
    [j \in 1 .. (Len(n) + LimbBits - 1) \div LimbBits |->
        LimbValue(n, LimbBits * (j - 1) + 1, 0)]

BitsOfLimbs(limbs) ==
    [i \in 1 .. LimbBits * Len(limbs) |->
        (limbs[((i - 1) \div LimbBits) + 1] \div (2 ^ ((i - 1) % LimbBits))) % 2]

RECURSIVE TimesLimbs(_, _, _)
TimesLimbs(x, a, carry) ==
    IF x = <<>> THEN <<carry % LimbBase, carry \div LimbBase>>
    ELSE LET v == a * Head(x) + carry
         IN <<v % LimbBase>> \o TimesLimbs(Tail(x), a, v \div LimbBase)

\* n * a for a number a below 2^15
TimesSmall(n, a) == Trim(BitsOfLimbs(TimesLimbs(Limbs(n), a, 0)))

RECURSIVE AddLimbs(_, _, _)
AddLimbs(x, y, carry) ==
    IF x = <<>> /\ y = <<>> THEN <<carry>>
    ELSE LET v == (IF x = <<>> THEN 0 ELSE Head(x))
                  + (IF y = <<>> THEN 0 ELSE Head(y)) + carry
         IN <<v % LimbBase>> \o AddLimbs(IF x = <<>> THEN x ELSE Tail(x),
                                         IF y = <<>> THEN y ELSE Tail(y),
                                         v \div LimbBase)

AddBits(x, y) == Trim(BitsOfLimbs(AddLimbs(Limbs(x), Limbs(y), 0)))

\* n * 2^e, plus a little more when `sticky`, rounded to a double.
RECURSIVE RoundToDouble(_, _, _)
RoundToDouble(n, e, sticky) ==
    LET t == Trim(n)
        k == Len(t) - MantissaBits
    IN IF k <= 0 THEN [m |-> t, e |-> e]
       ELSE LET kept == SubSeq(t, k + 1, Len(t))
                half == t[k] = 1
                rest == sticky \/ \E i \in 1 .. k - 1 : t[i] = 1
                up == half /\ (rest \/ kept[1] = 1)
            IN IF up THEN RoundToDouble(AddBits(kept, <<1>>), e + k, FALSE)
               ELSE [m |-> kept, e |-> e + k]

\* What is left of r, below delta, after k limbs of the quotient r / delta.
RECURSIVE Remainder(_, _, _)
Remainder(r, delta, k) ==
    IF k = 0 THEN r ELSE Remainder((r * LimbBase) % delta, delta, k - 1)

\* The first QuotientBits binary places of r / delta for 0 <= r < delta.
LongDivision(r, delta) ==
    BitsOfLimbs([j \in 1 .. QuotientLimbs |->
                    (Remainder(r, delta, QuotientLimbs - j) * LimbBase) \div delta])

\* float(k) for a natural number k below 2^31.
DoubleOf(k) == [m |-> Trim(BitsOf(k, 31)), e |-> 0]

\* float(p) / delta for 0 <= p < delta
DoubleQuotient(p, delta) ==
    RoundToDouble(LongDivision(p, delta), -QuotientBits,
                  Remainder(p, delta, QuotientLimbs) # 0)

\* a * x for a natural number a and a double x
DoubleTimes(a, x) == RoundToDouble(TimesSmall(x.m, a), x.e, FALSE)

\* The mantissas of x and y over their lesser exponent.
Aligned(x, y) ==
    LET e == IF x.e < y.e THEN x.e ELSE y.e
    IN [x |-> Trim(Zeros(x.e - e) \o x.m), y |-> Trim(Zeros(y.e - e) \o y.m), e |-> e]

DoubleAdd(x, y) ==
    LET a == Aligned(x, y) IN RoundToDouble(AddBits(a.x, a.y), a.e, FALSE)

DoubleEq(x, y) == LET a == Aligned(x, y) IN a.x = a.y

DoubleLess(x, y) ==
    LET a == Aligned(x, y)
    IN IF Len(a.x) # Len(a.y) THEN Len(a.x) < Len(a.y)
       ELSE \E i \in 1 .. Len(a.x) :
               /\ a.x[i] < a.y[i]
               /\ \A j \in i + 1 .. Len(a.x) : a.x[j] = a.y[j]

DoubleLE(x, y) == DoubleEq(x, y) \/ DoubleLess(x, y)

\* The latitudes, longitudes and elevations of the two neighbours.
AxisValues == {0, 12, 90, 180}

\* low_perc, high_perc and one of lat, lon, ele, as the interpolation
\* branch of auto_timestamp_comparison computes them.
Interpolated(a, b, photo, lower, higher) ==
    LET delta == higher - lower
        low_perc == DoubleQuotient(photo - lower, delta)
        high_perc == DoubleQuotient(higher - photo, delta)
    IN [low_perc |-> low_perc, high_perc |-> high_perc,
        value |-> DoubleAdd(DoubleTimes(a, low_perc), DoubleTimes(b, high_perc))]

InitFloat ==
    /\ AppInit
    /\ expat = None /\ parser = None /\ trackfile = None /\ polygons = <<>>
    /\ stamp = None
    /\ args \in {x \in [a : AxisValues, b : AxisValues, photo : 1 .. MaxDelta - 1,
                       higher : 2 .. MaxDelta, out : {None}] : x.photo < x.higher}

\* The interpolation of a photo taken `photo` seconds after its lower
\* neighbour, which is at second 0.
Interpolate ==
    /\ args.out = None
    /\ args' = [args EXCEPT !.out = Interpolated(args.a, args.b, args.photo, 0, args.higher)]
    /\ UNCHANGED <<appvars, gpxvars, stamp>>

NextFloat == Interpolate

SpecFloat == InitFloat /\ [][NextFloat]_vars

(***************************************************************************)
(* Properties of the interpolation.                                        *)
(***************************************************************************)
Rows == 1 .. Len(loaded_photos)

MinKey(t) == CHOOSE k \in DOMAIN t : \A j \in DOMAIN t : k <= j
MaxKey(t) == CHOOSE k \in DOMAIN t : \A j \in DOMAIN t : k >= j

\* The photo's corrected time, pegged into the range of the track.
Clamped(t, x) ==
    IF x < MinKey(t) THEN MinKey(t) ELSE IF x > MaxKey(t) THEN MaxKey(t) ELSE x

LowerKey(t, x) == CHOOSE k \in DOMAIN t : k < x /\ \A j \in DOMAIN t : j < x => j <= k
UpperKey(t, x) == CHOOSE k \in DOMAIN t : k > x /\ \A j \in DOMAIN t : j > x => j >= k

\* low_weight * a + high_weight * b, with low_weight = (upper - x) / span
\* and high_weight = (x - lower) / span.
Weighted(a, b, x, lower, upper) ==
    Rat((upper - x) * a + (x - lower) * b, upper - lower)

\* What the last handler's comparison computed for row i: after
\* time_fudge_value_changed every row has been compared against the track
\* and the offset of the present state.
Computed(i) ==
    Comparison(tracks, HIGHEST, LOWEST, time_fudge, loaded_photos[i].timestamp)

Compared == op = "time_fudge_value_changed"

\* The row holds what the comparison handed to _insert_coordinates.
RowHolds(i, c) ==
    /\ valid_coords(c.lat, c.lon) =>
          loaded_photos[i].lat = c.lat /\ loaded_photos[i].lon = c.lon
    /\ Truthy(c.ele) => loaded_photos[i].ele = c.ele

\* C1: with at least two points and a pegged target that is no key,
\* latitude, longitude and elevation are
\* low_weight * value(lower) + high_weight * value(upper), where lower and
\* upper are the nearest keys below and above the target,
\* low_weight = (upper - target) / span, high_weight = (target - lower) / span.
C1_LinearInterpolation ==
    Compared =>
      \A i \in Rows :
        LET x == Clamped(tracks, loaded_photos[i].timestamp + time_fudge)
            c == Computed(i)
        IN (Cardinality(DOMAIN tracks) >= 2 /\ x \notin DOMAIN tracks) =>
              LET lo == LowerKey(tracks, x)
                  hi == UpperKey(tracks, x)
              IN /\ c.lat = Weighted(tracks[lo].lat, tracks[hi].lat, x, lo, hi)
                 /\ c.lon = Weighted(tracks[lo].lon, tracks[hi].lon, x, lo, hi)
                 /\ c.ele = Weighted(tracks[lo].ele, tracks[hi].ele, x, lo, hi)
                 /\ RowHolds(i, c)

\* C2: when the track (of at least two points) has a point at the photo's
\* corrected time T, the comparison returns that point's latitude, longitude
\* and elevation, and the row takes them.
C2_ExactMatch ==
    Compared =>
      \A i \in Rows :
        LET T == loaded_photos[i].timestamp + time_fudge
            c == Computed(i)
        IN (Cardinality(DOMAIN tracks) >= 2 /\ T \in DOMAIN tracks) =>
              /\ c.lat = Float(tracks[T].lat)
              /\ c.lon = Float(tracks[T].lon)
              /\ c.ele = Float(tracks[T].ele)
              /\ RowHolds(i, c)

C2_Witness ==
    /\ Compared
    /\ Cardinality(DOMAIN tracks) >= 2
    /\ \E i \in Rows :
          /\ loaded_photos[i].timestamp + time_fudge \in DOMAIN tracks
          /\ loaded_photos[i].lat = Float(tracks[loaded_photos[i].timestamp + time_fudge].lat)

\* C3: with at least two points, a corrected time before the earliest key
\* yields the earliest point's coordinates and one after the latest key the
\* latest point's.
C3_Clamping ==
    Compared =>
      \A i \in Rows :
        LET T == loaded_photos[i].timestamp + time_fudge
            c == Computed(i)
            e == IF T < MinKey(tracks) THEN MinKey(tracks) ELSE MaxKey(tracks)
        IN (Cardinality(DOMAIN tracks) >= 2
            /\ (T < MinKey(tracks) \/ T > MaxKey(tracks))) =>
              /\ c.lat = Float(tracks[e].lat)
              /\ c.lon = Float(tracks[e].lon)
              /\ c.ele = Float(tracks[e].ele)
              /\ RowHolds(i, c)

C3_Witness ==
    /\ Compared
    /\ Cardinality(DOMAIN tracks) >= 2
    /\ tracks[MinKey(tracks)] # tracks[MaxKey(tracks)]
    /\ \E i \in Rows :
          /\ loaded_photos[i].timestamp + time_fudge > MaxKey(tracks)
          /\ loaded_photos[i].lat = Float(tracks[MaxKey(tracks)].lat)

\* C4: with fewer than two points in the track, auto_timestamp_comparison
\* leaves the photo record and the modified set as they are, whatever the
\* clock offset.
C4_InsufficientData ==
    Cardinality(DOMAIN tracks) < 2 =>
      \A i \in Rows, f \in FudgeVals :
        LET r == auto_timestamp_comparison([Entry EXCEPT !.time_fudge = f], i)
        IN r.loaded_photos = loaded_photos /\ r.modified = modified

C4_Witness ==
    /\ Compared
    /\ Cardinality(DOMAIN tracks) = 1
    /\ Rows # {}
    /\ modified = {}

\* C5: the handlers that only compare (the clock offset change, the revert)
\* leave the track and its LOWEST/HIGHEST as they were.
C5_PureRead ==
    [][op' \in {"time_fudge_value_changed", "revert_selected_photos"}
          => UNCHANGED <<tracks, HIGHEST, LOWEST>>]_vars

C5_Witness ==
    /\ Compared
    /\ \E i \in Rows : Computed(i).branch = "interpolated"
             /\ loaded_photos[i].lat = Computed(i).lat

\* C6: once the clock offset has been applied, applying the same offset
\* again leaves every row and the modified set the same.
C6_Idempotent ==
    Compared =>
      LET again == ForeachComparison(Entry, 1)
      IN again.loaded_photos = loaded_photos /\ again.modified = modified

C6_Witness ==
    /\ Compared
    /\ \E i \in Rows : Computed(i).branch = "interpolated"
             /\ loaded_photos[i].path \in modified
             /\ loaded_photos[i].ele = Computed(i).ele

(***************************************************************************)
(* Properties of the GPX parser.                                           *)
(***************************************************************************)
\* The points the document's complete trkpt elements stand for, by trkseg.
ExpectedPolygons ==
    [i \in 1 .. Len(expat.expected) |->
        [j \in 1 .. Len(expat.expected[i]) |-> expat.expected[i][j].p]]

\* The complete trkpt elements of the document: epoch second and point.
Entries ==
    UNION {{expat.expected[i][j] : j \in 1 .. Len(expat.expected[i])} :
              i \in 1 .. Len(expat.expected)}

RECURSIVE SumLen(_)
SumLen(seqs) == IF seqs = <<>> THEN 0 ELSE Len(Head(seqs)) + SumLen(Tail(seqs))

\* C7: of a GPX document with s trkseg elements and n well-formed trkpt
\* elements the parser starts exactly s polygons, one at each trkseg, and
\* emits exactly n points, in document order, each into the polygon started
\* most recently before it, under the epoch second its <time> stands for.
C7_SegmentsAndPoints ==
    /\ Len(polygons) = expat.segs
    /\ SumLen(polygons) = SumLen(expat.expected)
    /\ polygons = ExpectedPolygons
    /\ DOMAIN trackfile.tracks = {e.t : e \in Entries}
    /\ \A t \in DOMAIN trackfile.tracks :
          \E e \in Entries : e.t = t /\ e.p = trackfile.tracks[t]

C7_Witness ==
    /\ expat.eof
    /\ trackfile.exc = ""
    /\ expat.segs = 2
    /\ expat.pts = 3
    /\ expat.dropped = 0
    /\ Len(polygons) = 2
    /\ Len(polygons[1]) = 2
    /\ Len(polygons[2]) = 1
    /\ trackfile.alpha = <<7>>
    /\ trackfile.omega = <<1287259753>>

\* C8: the conversion of the GPX time 2010-10-16T20:09:13Z (split into six
\* integer fields, taken as a UTC calendar time) gives the epoch second
\* 1287259753.
C8_Epoch ==
    (stamp.done /\ stamp.text = T_2010) => stamp.timestamp = <<1287259753>>

C8_Witness ==
    /\ stamp.done
    /\ stamp.text = T_2010
    /\ stamp.timestamp # None
    /\ stamp.timestamp[1] = ((14898 * 24 + 20) * 60 + 9) * 60 + 13

\* C8 as the specification words it: the conversion of 2010-10-16T20:09:13Z
\* gives the epoch second 1287260953.
C8_Epoch_AsWritten ==
    (stamp.done /\ stamp.text = T_2010) => stamp.timestamp = <<1287260953>>

\* The end of a trkpt element reaches the parser.
ClosesTrkpt ==
    /\ expat.stack # <<>>
    /\ Top = "trkpt"
    /\ Len(expat'.stack) < Len(expat.stack)

\* C9: a trkpt whose lat, lon or time is missing or unparsable adds no key
\* to the track and no point to the map and raises nothing, and the parser
\* goes on; a well-formed trkpt after it is emitted with its own values.
C9_MalformedPointDropped ==
    [][ClosesTrkpt =>
         /\ KindOf(expat.cur) = "incomplete" =>
               /\ trackfile'.tracks = trackfile.tracks
               /\ polygons' = polygons
               /\ trackfile'.exc = ""
               /\ ~expat'.eof
               /\ parser'.tracking = None
               /\ parser'.StartElementHandler = "element_start"
         /\ (expat.dropped > 0 /\ KindOf(expat.cur) = "complete") =>
               /\ trackfile'.tracks =
                    Update(trackfile.tracks,
                           [k \in {EpochOf(expat.cur.kids["time"])[1]} |-> PointOf(expat.cur)])
               /\ polygons' = [polygons EXCEPT ![Len(polygons)] = Append(@, PointOf(expat.cur))]
               /\ trackfile'.exc = ""
      ]_vars

C9_Witness ==
    /\ expat.dropped > 0
    /\ expat.last = "complete"
    /\ expat.stack # <<>>
    /\ Top = "trkseg"
    /\ trackfile.exc = ""
    /\ SumLen(polygons) = 1
    /\ polygons[Len(polygons)] = <<[lat |-> <<-25, 2>>, lon |-> Float(26), ele |-> Float(0)]>>

\* C10: when the root element of the document is not the declared root
\* (gpx), the parse ends in IOError at the root element: no callback has
\* been invoked, no polygon started, no point emitted.
C10_RootMismatch ==
    (expat.root # None /\ expat.root # <<rootname>>) =>
        /\ trackfile.exc = "IOError"
        /\ parser.StartElementHandler = "element_root"
        /\ parser.calls = 0
        /\ polygons = <<>>
        /\ DOMAIN trackfile.tracks = {}
        /\ Len(expat.stack) = 1

C10_Witness ==
    /\ expat.root = <<"kml">>
    /\ trackfile.exc = "IOError"
    /\ parser.calls = 0

(***************************************************************************)
(* Properties of the KML parser.                                           *)
(***************************************************************************)
\* What the document means by the text of a <when>: its epoch second; None
\* for a text that is no date.
WhenOf(text) ==
    CASE text = T_2010 -> <<1287259753>>
      [] text = T_1970 -> <<7>>
      [] OTHER -> None

\* The point a queued coordinate "lon lat ele" stands for.
PointOfWords(c) == [lat |-> PyFloat(c[2]), lon |-> PyFloat(c[1]), ele |-> PyFloat(c[3])]

\* The end of a when or gx:coord element reaches the parser.
ClosesQueued ==
    /\ expat.stack # <<>>
    /\ Top \in {"when", "gx:coord"}
    /\ Len(expat'.stack) < Len(expat.stack)

Least(a, b) == IF a < b THEN a ELSE b

\* C11: when a when or gx:coord element closes, it joins the back of its
\* queue (a when that is no date joins none), and with W and C the queues
\* then and n the lesser of their lengths, exactly n pairs are emitted, the
\* k-th timestamp of W with the k-th coordinate of C, and exactly these n
\* entries leave the front of both queues.  Stated for coordinates that are
\* triples of numbers.
C11_QueuePairing ==
    [][ClosesQueued =>
         LET W == IF Top = "when" /\ WhenOf(expat.text) # None
                  THEN Append(trackfile.whens, WhenOf(expat.text)[1])
                  ELSE trackfile.whens
             C == IF Top = "gx:coord"
                  THEN Append(trackfile.coords, PySplit(expat.text))
                  ELSE trackfile.coords
             n == Least(Len(W), Len(C))
             last(t) == CHOOSE k \in 1 .. n : W[k] = t /\ \A j \in 1 .. n : W[j] = t => j <= k
         IN (\A k \in 1 .. n : CoordError(C[k]) = "") =>
              /\ trackfile'.exc = ""
              /\ Len(polygons') = Len(polygons)
              /\ \A i \in 1 .. Len(polygons) :
                    polygons'[i] = IF i < Len(polygons) THEN polygons[i]
                                   ELSE polygons[i] \o [k \in 1 .. n |-> PointOfWords(C[k])]
              /\ DOMAIN trackfile'.tracks = DOMAIN trackfile.tracks \cup {W[k] : k \in 1 .. n}
              /\ \A t \in DOMAIN trackfile'.tracks :
                    trackfile'.tracks[t] = IF \E k \in 1 .. n : W[k] = t
                                           THEN PointOfWords(C[last(t)])
                                           ELSE trackfile.tracks[t]
              /\ trackfile'.whens = SubSeq(W, n + 1, Len(W))
              /\ trackfile'.coords = SubSeq(C, n + 1, Len(C))
      ]_vars

C11_Witness ==
    /\ trackfile.exc = ""
    /\ expat.whens = 2
    /\ expat.coords = 1
    /\ expat.stack # <<>>
    /\ Top = "gx:Track"
    /\ trackfile.whens = <<7>>
    /\ trackfile.coords = <<>>
    /\ DOMAIN trackfile.tracks = {1287259753}
    /\ trackfile.tracks[1287259753] = [lat |-> Float(10), lon |-> Float(20), ele |-> Float(5)]
    /\ polygons = <<<<[lat |-> Float(10), lon |-> Float(20), ele |-> Float(5)]>>>>

(***************************************************************************)
(* Properties of the photo records.                                        *)
(***************************************************************************)
\* C12: after the revert of a photo (revert_selected_photos, possible while
\* some photo is modified), that photo is not in the modified set, whatever
\* the track and the clock offset.
C12_RevertClearsModified ==
    modified # {} =>
      \A sel \in Selections :
        LET r == revert_selected_photos(Entry, sel)
        IN \A i \in sel : r.loaded_photos[i].path \notin r.modified

\* C13: after the revert of a photo, the row's latitude, longitude and
\* elevation are those of the EXIF record on disk; a file without GPS data
\* leaves the row without coordinates.
C13_RevertRestoresDisk ==
    modified # {} =>
      \A sel \in Selections :
        LET r == revert_selected_photos(Entry, sel)
        IN \A i \in sel :
              LET row == r.loaded_photos[i]
                  exif == disk[row.path]
              IN row.lat = exif.lat /\ row.lon = exif.lon /\ row.ele = exif.ele

\* C14: the manual placement of a photo at coordinates that are absent or
\* outside latitude [-90, 90] and longitude [-180, 180] changes neither the
\* row's latitude, longitude and elevation nor the modified set; at valid
\* coordinates it sets the row's latitude and longitude to the point and
\* puts the photo in the modified set.
C14_ManualApply ==
    [][op' = "apply_selected_photos" =>
         IF valid_coords(args.lat, args.lon)
         THEN /\ loaded_photos'[1].lat = args.lat
              /\ loaded_photos'[1].lon = args.lon
              /\ loaded_photos'[1].path \in modified'
         ELSE /\ loaded_photos' = loaded_photos
              /\ modified' = modified
      ]_vars

\* C15: when every write succeeds, save_all_files writes to disk exactly the
\* photos that are in the modified set: the file of every modified photo
\* holds the row's coordinates afterwards and the photo has left the
\* modified set, the file of every other photo is as it was, and the
\* modified set is empty when save_all_files is over.
C15_SavePersistsAndClears ==
    \A propagates \in BOOLEAN :
        LET r == save_all_files(Entry, {}, propagates)
        IN /\ \A i \in 1 .. Len(loaded_photos) :
                 LET row == loaded_photos[i]
                 IN IF row.path \in modified
                    THEN /\ r.disk[row.path] = Written(disk[row.path], row)
                         /\ r.disk[row.path].datum = "WGS-84"
                         /\ row.path \notin r.modified
                    ELSE r.disk[row.path] = disk[row.path]
           /\ r.modified = {}
           /\ r.exc = ""

C15_Witness ==
    /\ op = "save_all_files"
    /\ modified = {}
    /\ \E i, j \in 1 .. Len(loaded_photos) :
          /\ disk[loaded_photos[i].path].datum = "WGS-84"
          /\ disk[loaded_photos[i].path].lat = loaded_photos[i].lat
          /\ disk[loaded_photos[j].path] = DiskInit[loaded_photos[j].path]

\* C16: after the clock offset has changed while the track holds at least two
\* points, every loaded photo holds the latitude, longitude and elevation
\* the comparison computes for its timestamp plus the new offset, and is in
\* the modified set.
C16_OffsetRecomputesAll ==
    (Compared /\ Cardinality(DOMAIN tracks) >= 2) =>
      \A i \in Rows :
        LET c == Computed(i)
        IN /\ loaded_photos[i].lat = c.lat
           /\ loaded_photos[i].lon = c.lon
           /\ get_value(loaded_photos[i].ele) = c.ele
           /\ loaded_photos[i].path \in modified

\* Every file of the list handled by the loop body on its own, whatever
\* became of the files before it, and the names of those that failed.
RECURSIVE LoadEach(_, _)
LoadEach(s, files) ==
    IF files = <<>> THEN s
    ELSE LET r == LoadOneFile(s, Head(files))
             done == IF r.exc = "" THEN r
                     ELSE [r EXCEPT !.exc = "",
                                    !.invalid_files = Append(@, Head(files).name)]
         IN LoadEach(done, Tail(files))

\* C17: in add_files_dialog over several chosen files and in save_all_files
\* over several modified photos, an item that fails (a file that cannot be
\* read, a file that is neither photo nor track, XML without a track, a
\* write that fails) leaves every other item processed as it would have
\* been, and the name of every failed file is in the list of failed files.
C17_BatchSurvivesFailure ==
    /\ \A files \in BatchLists :
          LET r == LoadFiles(Entry, files)
              each == LoadEach(Entry, files)
          IN /\ r.loaded_photos = each.loaded_photos
             /\ r.tracks = each.tracks
             /\ r.modified = each.modified
             /\ r.invalid_files = each.invalid_files
    /\ \A unwritable \in SUBSET PhotoFiles, propagates \in BOOLEAN :
          LET r == save_all_files(Entry, unwritable, propagates)
          IN \A i \in 1 .. Len(loaded_photos) :
                LET row == loaded_photos[i]
                IN row.path \in modified =>
                      IF row.path \in unwritable
                      THEN \E k \in 1 .. Len(r.invalid_files) :
                              r.invalid_files[k] = row.path
                      ELSE r.disk[row.path] = Written(disk[row.path], row)

\* The track `after` is the track `before` with the point of key t replaced
\* by v and nothing else changed.
Replaced(before, after, t, v) ==
    /\ DOMAIN after = DOMAIN before
    /\ after[t] = v
    /\ \A k \in DOMAIN before \ {t} : after[k] = before[k]

\* C18: a point whose timestamp is a key of the track already, put there by
\* a file loaded earlier or by an earlier point of the same file, replaces
\* that key's position and elevation; the number of keys stays and every
\* other key keeps its value.
C18_LastWriteWins ==
    \A p \in GpxPoints :
        LET first == InsertPoint(Entry, p)
        IN /\ p.t \in DOMAIN tracks => Replaced(tracks, first.tracks, p.t, p.v)
           /\ \A v \in TrackVals :
                 LET doc == [pts |-> <<p, [t |-> p.t, v |-> v]>>, crash |-> FALSE]
                 IN Replaced(first.tracks, load_gpx_from_file(Entry, doc).tracks, p.t, v)

C18_Witness ==
    /\ op = "add_files_dialog"
    /\ \E p \in GpxPoints :
          /\ p.t \in DOMAIN tracks
          /\ tracks[p.t] # p.v
          /\ DOMAIN tracks # {p.t}
          /\ InsertPoint(Entry, p).tracks[p.t] = p.v

\* C19: whenever the track is not empty, LOWEST is its least key and HIGHEST
\* its greatest key, whatever files were loaded and however often the track
\* was cleared; both are keys of the track.
C19_BoundsAreExtremes ==
    DOMAIN tracks # {} =>
        /\ LOWEST = <<MinKey(tracks)>>
        /\ HIGHEST = <<MaxKey(tracks)>>
        /\ LOWEST[1] \in DOMAIN tracks
        /\ HIGHEST[1] \in DOMAIN tracks

C19_Witness ==
    /\ op = "add_files_dialog"
    /\ Cardinality(DOMAIN tracks) >= 3
    /\ LOWEST = <<MinKey(tracks)>>
    /\ HIGHEST = <<MaxKey(tracks)>>
    /\ LOWEST # HIGHEST

\* C20: clear_all_gpx leaves the track empty and HIGHEST and LOWEST None in
\* one step; in no state is the track empty while HIGHEST or LOWEST holds a
\* timestamp; after a clear the comparison of every photo ends for want of
\* data; and no other handler takes a point out of the track.
C20_ClearResetsAll ==
    [][/\ op' = "clear_all_gpx" =>
             /\ tracks' = <<>>
             /\ HIGHEST' = None
             /\ LOWEST' = None
             /\ \A i \in 1 .. Len(loaded_photos') :
                   /\ Comparison(tracks', HIGHEST', LOWEST', time_fudge',
                                 loaded_photos'[i].timestamp).branch = "insufficient"
                   /\ auto_timestamp_comparison(Entry, i)' = Entry'
       /\ DOMAIN tracks = {} => (HIGHEST = None /\ LOWEST = None)
       /\ DOMAIN tracks' = {} => (HIGHEST' = None /\ LOWEST' = None)
       /\ op' # "clear_all_gpx" => DOMAIN tracks \subseteq DOMAIN tracks'
      ]_vars

C20_Witness ==
    /\ op = "clear_all_gpx"
    /\ tracks = <<>>
    /\ \E i \in Rows : loaded_photos[i].lat \notin {None, Float(40)}

\* 1e-10 is 1 / (ToleranceRoot * ToleranceRoot).
ToleranceRoot == 100000

\* |a - b| <= 1e-10
WithinTolerance(a, b) ==
    LET e == RatAbs(RatSub(a, b))
    IN e[1] <= (e[2] \div ToleranceRoot) \div ToleranceRoot

\* C21: for every decimal x of [-180, 180], negative ones included, the
\* seconds that decimal_to_dms gives are a rational of denominator at most
\* 10000, and dms_to_decimal of the result is within 1e-10 of x.
C21_DmsRoundTrip ==
    (args # None /\ args.dms # None) =>
        /\ args.dms[3][2] <= MaxDenominator
        /\ WithinTolerance(args.back, args.decimal)

\* A point of the parser raised: float() of a gx:coord field.
PointRaised == trackfile.exc \in {"IndexError", "ValueError"} /\ ~expat.eof

\* The end of a gx:coord element reaches the parser.
ClosesCoord ==
    /\ expat.stack # <<>>
    /\ Top = "gx:coord"
    /\ Len(expat'.stack) < Len(expat.stack)

\* C22: a when that is no date, or a gx:coord of fewer than three fields or
\* with a field that is no number, costs only its own point: the parse does
\* not raise, and when the k-th gx:coord of a gx:Track closes well formed
\* after the k-th when of that gx:Track has closed well formed, the track
\* holds the coordinates of the one at the timestamp of the other.
C22_PointErrorsStayLocal ==
    [][/\ ~PointRaised'
       /\ (ClosesCoord /\ trackfile'.exc = "") =>
             LET k == expat.nth + 1
             IN (/\ k <= Len(expat.seen)
                 /\ WhenOf(expat.seen[k]) # None
                 /\ CoordError(PySplit(expat.text)) = "")
                => /\ WhenOf(expat.seen[k])[1] \in DOMAIN trackfile'.tracks
                   /\ trackfile'.tracks[WhenOf(expat.seen[k])[1]]
                        = PointOfWords(PySplit(expat.text))
      ]_vars

\* The least rectangle that holds every point of the track t.
BoundingBox(t) ==
    LET lats == {t[k].lat : k \in DOMAIN t}
        lons == {t[k].lon : k \in DOMAIN t}
    IN <<MinOf(lats), MinOf(lons), MaxOf(lats), MaxOf(lons)>>

\* C23: the area that load_gpx_from_file hands to the map view is the least
\* latitude/longitude rectangle that holds every point put into the track
\* so far, by this file and by the files loaded before it since the last
\* clear.
C23_BoundingBoxOfTrack ==
    \A doc \in GpxDocs :
        (doc.pts # <<>> /\ ~doc.crash) =>
            LET r == load_gpx_from_file(Entry, doc)
            IN r.area = BoundingBox(r.tracks)

\* The end of an element reaches the parser.
ClosesElement ==
    /\ expat.stack # <<>>
    /\ Len(expat'.stack) < Len(expat.stack)

\* The buffer of the open trkpt: its own (empty) text, its attributes and
\* the texts of its children so far.
BufferOf(cur) == Update(Update([k \in {"trkpt"} |-> <<>>], cur.attrs), cur.kids)

\* C24: the scratch buffer is empty whenever no element is tracked; a
\* tracked element stays the tracked one until its own closing tag; the
\* completion callback fires at a closing tag exactly when its name is the
\* tracked name, with a buffer of the attributes and the text gathered since
\* the opening tag of that element, and when it returns tracking is reset
\* and the buffer is empty.
C24_OneTrackedElement ==
    [][/\ parser.tracking = None => parser.state = <<>>
       /\ parser'.tracking = None => parser'.state = <<>>
       /\ (parser.tracking # None /\ ~ClosesElement) => parser'.tracking = parser.tracking
       /\ ClosesElement =>
             /\ parser'.calls = (IF <<Top>> = parser.tracking THEN parser.calls + 1
                                 ELSE parser.calls)
             /\ <<Top>> # parser.tracking =>
                   /\ parser'.tracking = parser.tracking
                   /\ trackfile'.tracks = trackfile.tracks
                   /\ polygons' = polygons
             /\ <<Top>> = parser.tracking =>
                   /\ parser.state = BufferOf(expat.cur)
                   /\ trackfile'.exc = "" =>
                         /\ parser'.tracking = None
                         /\ parser'.state = <<>>
                         /\ parser'.EndElementHandler = "None"
                         /\ parser'.CharacterDataHandler = "None"
      ]_vars

C24_Witness ==
    /\ expat.pts = 2
    /\ expat.dropped = 0
    /\ expat.last = "complete"
    /\ expat.stack # <<>>
    /\ Top = "trkseg"
    /\ parser.tracking = None
    /\ parser.state = <<>>
    /\ parser.calls > 2
    /\ SumLen(polygons) = 2

\* C25: after every handler the Save button is sensitive exactly when
\* there are modified photos, and the Clear button and the clock offset are
\* sensitive exactly when the track has points.
C25_SensitivityMatchesState ==
    /\ save_button = (modified # {})
    /\ gpx_sensitive = (DOMAIN tracks # {})

\* The times a photo can carry, from before the track to after it.
PhotoTimes == -1 .. MaxTime + 1

\* C26: whenever the comparison of a photo against a track of two or more
\* points finds the pegged time absent from the track, the neighbours it
\* settles on are keys of the track with lower < time < higher, so their
\* distance is positive and the division is defined; the comparison never
\* raises.
C26_NeighboursBracket ==
    \A ts \in PhotoTimes, fudge \in FudgeVals :
        LET c == Comparison(tracks, HIGHEST, LOWEST, fudge, ts)
        IN /\ c.branch \in {"insufficient", "exact", "interpolated"}
           /\ c.branch = "interpolated" =>
                 /\ c.lower[1] \in DOMAIN tracks
                 /\ c.higher[1] \in DOMAIN tracks
                 /\ c.lower[1] < c.photo[1]
                 /\ c.photo[1] < c.higher[1]
                 /\ c.higher[1] - c.lower[1] > 0
                 /\ c.photo[1] = c.target

C26_Witness ==
    /\ op = "time_fudge_value_changed"
    /\ loaded_photos # <<>>
    /\ LET c == Comparison(tracks, HIGHEST, LOWEST, time_fudge, loaded_photos[1].timestamp)
       IN /\ c.branch = "interpolated"
          /\ c.higher[1] - c.lower[1] = 2
          /\ loaded_photos[1].lat = c.lat

\* The file names of the rows of the photo store.
Paths == {loaded_photos[i].path : i \in Rows}

\* C27: every file name in self.modified is the path of a row of the photo
\* store, whatever was loaded, placed, interpolated, reverted, saved or
\* closed before.
C27_ModifiedAreLoaded == modified \subseteq Paths

C27_Witness ==
    /\ op = "close_selected_photos"
    /\ Len(loaded_photos) = 1
    /\ loaded_photos[1].path = "b.jpg"
    /\ modified = {"b.jpg"}
    /\ disk["a.jpg"].datum = None

\* C28: no two rows of the photo store hold the same path; opening files
\* leaves every row where it was with the path it had, and a revert leaves
\* the rows and their paths as they were.
C28_OneRowPerPath ==
    [][/\ \A i, j \in 1 .. Len(loaded_photos') :
             loaded_photos'[i].path = loaded_photos'[j].path => i = j
       /\ op' = "add_files_dialog" =>
             \A i \in Rows : /\ i <= Len(loaded_photos')
                             /\ loaded_photos'[i].path = loaded_photos[i].path
       /\ op' = "revert_selected_photos" =>
             /\ Len(loaded_photos') = Len(loaded_photos)
             /\ \A i \in Rows : loaded_photos'[i].path = loaded_photos[i].path
      ]_vars

\* a.jpg, placed by hand and never saved, was opened again: its row is the
\* only one, unmodified, and still shows the place it was given.
C28_Witness ==
    /\ op = "add_files_dialog"
    /\ Len(loaded_photos) = 1
    /\ loaded_photos[1].path = "a.jpg"
    /\ loaded_photos[1].lat = Float(40)
    /\ modified = {}
    /\ tracks = <<>>
    /\ disk = DiskInit

\* C29: whenever the KML parser is between callbacks and no exception has
\* ended the parse, the timestamps waiting or the coordinates waiting are
\* none: the two queues are never both non-empty.
C29_OneQueueEmpty ==
    trackfile.exc = "" => (trackfile.whens = <<>> \/ trackfile.coords = <<>>)

C29_Witness ==
    /\ trackfile.exc = ""
    /\ expat.whens = 1
    /\ expat.coords = 3
    /\ trackfile.whens = <<>>
    /\ Len(trackfile.coords) = 2
    /\ Cardinality(DOMAIN trackfile.tracks) = 1
    /\ SumLen(polygons) = 1

\* C30: the interpolated value is a convex combination of the values of the
\* two neighbours: each weight lies strictly between 0 and 1, the weights
\* add up to 1, and the value lies between the two values, so that
\* neighbours within the limit of a latitude (90) or of a longitude (180)
\* give a value within that limit.
C30_ConvexCombination ==
    args.out # None =>
        LET lo == DoubleOf(IF args.a < args.b THEN args.a ELSE args.b)
            hi == DoubleOf(IF args.a < args.b THEN args.b ELSE args.a)
        IN /\ DoubleLess(DoubleOf(0), args.out.low_perc)
           /\ DoubleLess(args.out.low_perc, DoubleOf(1))
           /\ DoubleLess(DoubleOf(0), args.out.high_perc)
           /\ DoubleLess(args.out.high_perc, DoubleOf(1))
           /\ DoubleEq(DoubleAdd(args.out.low_perc, args.out.high_perc), DoubleOf(1))
           /\ DoubleLE(lo, args.out.value)
           /\ DoubleLE(args.out.value, hi)
           /\ \A limit \in {90, 180} :
                 (args.a <= limit /\ args.b <= limit) =>
                     DoubleLE(args.out.value, DoubleOf(limit))

====
